---- MODULE Spec2Model ----
(***************************************************************************)
(* Spatial analysis engine of the tower-defense bot: Region                *)
(* (python-algov1-1/region.py) and Defense (python-algov2-0/defense.py).   *)
(*                                                                         *)
(* A coordinate is a pair <<x, y>>.  A structure is a record               *)
(*   [x, y, type, upgraded, health, max_health, cost]                      *)
(* as the game library hands it to the bot.  Costs are prorated by         *)
(* health / max_health in floating point; the model keeps every           *)
(* max_health at a power of two and counts prorated costs in units of      *)
(* 1 / max_health, which is exact in both.                                 *)
(***************************************************************************)
EXTENDS Integers, Sequences, FiniteSets, TLC

\* ------------------------------------------------------------------------
\* Small helpers
\* ------------------------------------------------------------------------
Min2(a, b) == IF a <= b THEN a ELSE b
Max2(a, b) == IF a >= b THEN a ELSE b
Abs(a) == IF a >= 0 THEN a ELSE -a
SeqRange(s) == {s[i] : i \in 1..Len(s)}
SetMin(S) == CHOOSE v \in S : \A w \in S : v <= w
SetMax(S) == CHOOSE v \in S : \A w \in S : v >= w

\* ------------------------------------------------------------------------
\* Board (Defense.__init__: arrays of shape (28, 14) per player half)
\* ------------------------------------------------------------------------
ARENA_SIZE == 28
HALF_ARENA == 14
Board == (0..(ARENA_SIZE - 1)) \X (0..(HALF_ARENA - 1))

\* gamelib GameMap.in_arena_bounds: the diamond-shaped arena.
InArenaBounds(c) ==
    /\ c[1] \in 0..(ARENA_SIZE - 1)
    /\ c[2] \in 0..(ARENA_SIZE - 1)
    /\ IF c[2] < HALF_ARENA
       THEN /\ c[1] >= (HALF_ARENA - 1) - c[2]
            /\ c[1] <= HALF_ARENA + c[2]
       ELSE /\ c[1] >= c[2] - HALF_ARENA
            /\ c[1] <= (ARENA_SIZE - 1) - (c[2] - HALF_ARENA)

\* ------------------------------------------------------------------------
\* Region construction (Region.__init__)
\* ------------------------------------------------------------------------

\* Region.edge_coordinates: the lattice points along an edge, as the list the
\* code returns.
edge_coordinates(edge) ==
    LET swap   == edge[2][1] < edge[1][1]
        start  == IF swap THEN edge[2] ELSE edge[1]
        finish == IF swap THEN edge[1] ELSE edge[2]
    IN  IF start[1] = finish[1]
        THEN [i \in 1..(Abs(finish[2] - start[2]) + 1) |->
                 <<start[1], Min2(start[2], finish[2]) + (i - 1)>>]
        ELSE IF start[2] = finish[2]
        THEN [i \in 1..(Abs(finish[1] - start[1]) + 1) |->
                 <<Min2(start[1], finish[1]) + (i - 1), start[2]>>]
        ELSE IF finish[2] - start[2] > 0
        THEN [i \in 1..(finish[2] - start[2] + 1) |->
                 <<start[1] + (i - 1), start[2] + (i - 1)>>]
        ELSE [i \in 1..(start[2] - finish[2] + 1) |->
                 <<start[1] + (i - 1), start[2] - (i - 1)>>]

\* Region.edge_coordinates of python-algo/region.py: as above, except that the
\* downward-sloping branch steps (start[0] - i, start[1] - i).
edge_coordinates_algo(edge) ==
    LET swap   == edge[2][1] < edge[1][1]
        start  == IF swap THEN edge[2] ELSE edge[1]
        finish == IF swap THEN edge[1] ELSE edge[2]
    IN  IF start[1] = finish[1]
        THEN [i \in 1..(Abs(finish[2] - start[2]) + 1) |->
                 <<start[1], Min2(start[2], finish[2]) + (i - 1)>>]
        ELSE IF start[2] = finish[2]
        THEN [i \in 1..(Abs(finish[1] - start[1]) + 1) |->
                 <<Min2(start[1], finish[1]) + (i - 1), start[2]>>]
        ELSE IF finish[2] - start[2] > 0
        THEN [i \in 1..(finish[2] - start[2] + 1) |->
                 <<start[1] + (i - 1), start[2] + (i - 1)>>]
        ELSE [i \in 1..(start[2] - finish[2] + 1) |->
                 <<start[1] - (i - 1), start[2] - (i - 1)>>]

\* The ray-casting step without `if x <= max(p1x, p2x)`.
RayCrossesAnyX(x, y, p1, p2) ==
    /\ y > Min2(p1[2], p2[2])
    /\ y <= Max2(p1[2], p2[2])
    /\ \/ p1[1] = p2[1]
       \/ LET num == (y - p1[2]) * (p2[1] - p1[1])
              den == p2[2] - p1[2]
          IN  IF den > 0 THEN (x - p1[1]) * den <= num
                         ELSE (x - p1[1]) * den >= num

\* One step of the ray-casting loop of Region.point_inside_polygon: does the
\* edge p1 -> p2 toggle `inside` for the tile (x, y)?  xinters is a float in
\* the code; x <= xinters is decided here by cross-multiplication.
RayCrosses(x, y, p1, p2) ==
    /\ y > Min2(p1[2], p2[2])
    /\ y <= Max2(p1[2], p2[2])
    /\ x <= Max2(p1[1], p2[1])
    /\ \/ p1[1] = p2[1]
       \/ LET num == (y - p1[2]) * (p2[1] - p1[1])
              den == p2[2] - p1[2]
          IN  IF den > 0 THEN (x - p1[1]) * den <= num
                         ELSE (x - p1[1]) * den >= num

\* Region.point_inside_polygon: `inside` is toggled once per crossing edge
\* (the first iteration pairs poly[0] with itself and never toggles).
point_inside_polygon(x, y, poly) ==
    LET n == Len(poly)
        crossing == {i \in 1..n : RayCrosses(x, y, poly[i], poly[(i % n) + 1])}
    IN  Cardinality(crossing) % 2 = 1

\* all_boundaries without the closing edge from the last vertex to the first.
all_boundaries_open(vertices) ==
    UNION {SeqRange(edge_coordinates(<<vertices[i], vertices[i + 1]>>)) :
           i \in 1..(Len(vertices) - 1)}

\* Region.all_boundaries: lattice points of the edges between consecutive
\* vertices.
all_boundaries(vertices) ==
    UNION {SeqRange(edge_coordinates(<<vertices[i],
                                       vertices[(i % Len(vertices)) + 1]>>)) :
           i \in 1..Len(vertices)}

RECURSIVE SumOver(_, _)
SumOver(f, S) ==
    IF S = {} THEN 0
    ELSE LET c == CHOOSE a \in S : TRUE IN f[c] + SumOver(f, S \ {c})

\* self.tile_count as Region.__init__ sets it from the tiles found inside:
\* len(self.coordinates) in python-algov1-1, and in python-algov1
\* sum(len(hcoords) for hcoords in self.coordinates), hcoords being an
\* (x, y) pair.
TileCount(coordinates, version) ==
    IF version = "v1"
    THEN SumOver([c \in coordinates |-> Len(c)], coordinates)
    ELSE Cardinality(coordinates)

\* The region object as built by Region.__init__: bounds, the tri-state
\* grid_type (-1 outside, 0 edge, 1 inside), coordinates and tile_count.
\* The two versions of the constructor differ in tile_count only.
RegionInitOf(vertices, incoming, outgoing, breach, version) ==
    LET xs == {vertices[i][1] : i \in 1..Len(vertices)}
        ys == {vertices[i][2] : i \in 1..Len(vertices)}
        xb == <<SetMin(xs), SetMax(xs)>>
        yb == <<SetMin(ys), SetMax(ys)>>
        box == (xb[1]..xb[2]) \X (yb[1]..yb[2])
        bnd == all_boundaries(vertices)
        gt == [c \in box |->
                 IF c \in bnd THEN 0
                 ELSE IF point_inside_polygon(c[1], c[2], vertices) THEN 1
                 ELSE -1]
        inner == {c \in box : gt[c] = 1}
    IN  [vertices |-> vertices,
         incoming_edges |-> incoming,
         outgoing_edges |-> outgoing,
         breach_edges |-> breach,
         xbounds |-> xb,
         ybounds |-> yb,
         grid_type |-> gt,
         all_boundaries |-> bnd,
         tile_count |-> TileCount(inner, version),
         coordinates |-> inner \cup bnd]

\* Region.__init__ of python-algov1-1, the version Defense builds on.
RegionInit(vertices, incoming, outgoing, breach) ==
    RegionInitOf(vertices, incoming, outgoing, breach, "v1-1")

\* Defense.create_our_regions: the six fixed regions of player 0.
OurRegions ==
    [i \in 0..5 |->
       CASE i = 0 -> RegionInit(<< <<0, 13>>, <<7, 13>>, <<7, 6>> >>,
                        << <<<<0, 13>>, <<7, 13>>>>, <<<<7, 13>>, <<7, 6>>>> >>,
                        << >>,
                        << <<<<0, 13>>, <<7, 6>>>> >>)
         [] i = 1 -> RegionInit(<< <<27, 13>>, <<20, 13>>, <<20, 6>> >>,
                        << <<<<20, 13>>, <<27, 13>>>>, <<<<20, 13>>, <<20, 6>>>> >>,
                        << >>,
                        << <<<<27, 13>>, <<20, 6>>>> >>)
         [] i = 2 -> RegionInit(<< <<7, 6>>, <<7, 13>>, <<14, 13>> >>,
                        << <<<<7, 6>>, <<7, 13>>>>, <<<<7, 13>>, <<14, 13>>>> >>,
                        << <<<<7, 6>>, <<14, 13>>>> >>,
                        << >>)
         [] i = 3 -> RegionInit(<< <<13, 13>>, <<20, 13>>, <<20, 6>> >>,
                        << <<<<13, 13>>, <<20, 13>>>>, <<<<20, 13>>, <<20, 6>>>> >>,
                        << <<<<13, 13>>, <<20, 6>>>> >>,
                        << >>)
         [] i = 4 -> RegionInit(<< <<7, 6>>, <<13, 12>>, <<14, 12>>, <<20, 6>> >>,
                        << <<<<7, 6>>, <<13, 12>>>>, <<<<13, 12>>, <<14, 12>>>>,
                           <<<<14, 12>>, <<20, 6>>>> >>,
                        << <<<<7, 6>>, <<20, 6>>>> >>,
                        << >>)
         [] i = 5 -> RegionInit(<< <<7, 6>>, <<20, 6>>, <<14, 0>>, <<13, 0>> >>,
                        << <<<<7, 6>>, <<20, 6>>>> >>,
                        << >>,
                        << <<<<7, 6>>, <<13, 0>>>>, <<<<13, 0>>, <<14, 0>>>>,
                           <<<<14, 0>>, <<20, 6>>>> >>)]

\* Defense.create_enemy_regions: the six fixed regions of player 1.
EnemyRegions ==
    [i \in 0..5 |->
       CASE i = 0 -> RegionInit(<< <<0, 14>>, <<7, 14>>, <<7, 21>> >>,
                        << <<<<0, 14>>, <<7, 14>>>>, <<<<7, 14>>, <<7, 21>>>> >>,
                        << >>,
                        << <<<<0, 14>>, <<7, 21>>>> >>)
         [] i = 1 -> RegionInit(<< <<20, 14>>, <<20, 21>>, <<27, 14>> >>,
                        << <<<<20, 14>>, <<20, 21>>>>, <<<<20, 14>>, <<27, 14>>>> >>,
                        << >>,
                        << <<<<20, 21>>, <<27, 14>>>> >>)
         [] i = 2 -> RegionInit(<< <<7, 14>>, <<7, 21>>, <<14, 14>> >>,
                        << <<<<7, 14>>, <<14, 14>>>>, <<<<7, 14>>, <<7, 21>>>> >>,
                        << <<<<7, 21>>, <<14, 14>>>> >>,
                        << >>)
         [] i = 3 -> RegionInit(<< <<13, 14>>, <<20, 21>>, <<20, 14>> >>,
                        << <<<<13, 14>>, <<20, 14>>>>, <<<<20, 14>>, <<20, 21>>>> >>,
                        << <<<<13, 14>>, <<20, 21>>>> >>,
                        << >>)
         [] i = 4 -> RegionInit(<< <<7, 21>>, <<13, 15>>, <<14, 15>>, <<20, 21>> >>,
                        << <<<<7, 21>>, <<13, 15>>>>, <<<<13, 15>>, <<14, 15>>>>,
                           <<<<14, 15>>, <<20, 21>>>> >>,
                        << <<<<7, 21>>, <<20, 21>>>> >>,
                        << >>)
         [] i = 5 -> RegionInit(<< <<7, 21>>, <<13, 27>>, <<14, 27>>, <<20, 21>> >>,
                        << <<<<7, 21>>, <<20, 21>>>> >>,
                        << >>,
                        << <<<<7, 21>>, <<13, 27>>>>, <<<<13, 27>>, <<14, 27>>>>,
                           <<<<14, 27>>, <<20, 21>>>> >>)]

\* The two unit-square scenario regions of the property tests: 3 x 3 tiles
\* each, sharing the edge x = 12, built by the same Region.__init__.
ScenarioRegions ==
    [i \in 0..1 |->
       CASE i = 0 -> RegionInit(<< <<10, 3>>, <<12, 3>>, <<12, 5>>, <<10, 5>> >>,
                        << <<<<10, 3>>, <<10, 5>>>> >>,
                        << <<<<12, 3>>, <<12, 5>>>> >>,
                        << >>)
         [] i = 1 -> RegionInit(<< <<12, 3>>, <<14, 3>>, <<14, 5>>, <<12, 5>> >>,
                        << <<<<12, 3>>, <<12, 5>>>> >>,
                        << <<<<14, 3>>, <<14, 5>>>> >>,
                        << >>)]

\* ------------------------------------------------------------------------
\* Structures
\* ------------------------------------------------------------------------
TURRET == "TURRET"
FACTORY == "FACTORY"
WALL == "WALL"
UnitKinds == {TURRET, FACTORY, WALL}

\* max_health of a structure (game configuration).
UnitMaxHealth(type) == 4

\* Prorated costs are counted in units of 1 / HealthScale; every max_health
\* divides it.
HealthScale == UnitMaxHealth(TURRET)

\* cost[0] of a structure, in structure points (game configuration).
UnitCost(type) == CASE type = WALL -> 1 [] type = TURRET -> 2 [] OTHER -> 9

MkUnit(c, type, upgraded, health) ==
    [x |-> c[1], y |-> c[2], type |-> type, upgraded |-> upgraded,
     health |-> health, max_health |-> UnitMaxHealth(type), cost |-> UnitCost(type)]

\* ------------------------------------------------------------------------
\* State
\* ------------------------------------------------------------------------
VARIABLES
    layout,       \* the regions and board in use: "our" | "scenario" | "fortify"
    turn,         \* number of snapshots received so far
    game_map,     \* the Grid snapshot: tile -> list of structures (<< >> or <<u>>)
    reg_units,    \* Region.units, per region: kind -> list of structures
    reg_grid_unit,\* Region.grid_unit, per region: tile -> << >> (None) or <<u>>
    reg_view,     \* per region: damage_regions is a view of the Defense's array
    reg_states,   \* Region.states, per region
    def_units,    \* Defense.units: kind -> list of structures
    damage_regions,            \* Defense.damage_regions, tile -> damage
    recalculate_damage_regions,\* Defense.recalculate_damage_regions
    wr,           \* the last weakest_region call: arguments and returned value
    fort,         \* the fortify_defenses call in progress, the resource balance
                  \* and the rebuild queues of the Defense
    recalculate_paths, \* Region.recalculate_paths, per region
    path_dict,    \* Region.path_dict, per region
    pq,           \* the last path operation: which, on which region, its outcome
    geo,          \* a Region constructed from a polygon, and the outcome of
                  \* average_tile_damage on it
    fn            \* the last call of a function of the geometry or of the
                  \* coordinate lookup: its name, arguments and result

vars == <<layout, turn, game_map, reg_units, reg_grid_unit, reg_view, reg_states,
          def_units, damage_regions, recalculate_damage_regions, wr, fort,
          recalculate_paths, path_dict, pq, geo, fn>>

Regions == IF layout \in {"scenario", "paths"} THEN ScenarioRegions ELSE OurRegions
RegionIds == DOMAIN Regions

\* ------------------------------------------------------------------------
\* Bounds of the model
\* ------------------------------------------------------------------------
\* Number of snapshots (turns) a run receives.
MaxTurns == 2

\* Tiles on which the bounded snapshots hold structures, per layout.  (7, 10)
\* lies on the edge shared by regions 0 and 2, (18, 10) inside region 3;
\* (11, 4) is the centre of scenario region 0, (12, 4) lies on the shared
\* edge, (13, 4) is the centre of scenario region 1; the path runs add the
\* corner (12, 3) of the shared edge.
SitesOf(l) == IF l = "our" THEN {<<7, 10>>, <<18, 10>>}
              ELSE IF l = "fortify" THEN {<<9, 10>>, <<18, 10>>, <<19, 10>>}
              ELSE IF l = "paths" THEN {<<12, 3>>, <<12, 4>>, <<13, 4>>}
              ELSE IF l = "geometry" THEN {}
              ELSE {<<11, 4>>, <<12, 4>>, <<13, 4>>}
\* What a snapshot may hold on a site.
ChoicesAt(l, c) ==
    {<< >>} \cup
    (IF l = "our"
     THEN IF c = <<7, 10>>
          THEN {<<MkUnit(c, TURRET, FALSE, 4)>>, <<MkUnit(c, TURRET, TRUE, 4)>>}
          ELSE {<<MkUnit(c, WALL, FALSE, 2)>>, <<MkUnit(c, FACTORY, FALSE, 4)>>}
     ELSE IF l = "fortify"
     THEN IF c = <<9, 10>>
          THEN {<<MkUnit(c, TURRET, TRUE, 2)>>}
          ELSE {<<MkUnit(c, WALL, FALSE, 2)>>}
     ELSE IF l = "paths"
     THEN IF c = <<12, 3>>
          THEN {<<MkUnit(c, TURRET, FALSE, 4)>>}
          ELSE {<<MkUnit(c, WALL, FALSE, 4)>>}
     ELSE IF c = <<12, 4>>
          THEN {<<MkUnit(c, TURRET, FALSE, 4)>>, <<MkUnit(c, WALL, FALSE, 4)>>}
          ELSE {<<MkUnit(c, TURRET, FALSE, 4)>>})

\* The tiles the board of a layout is recorded on: the sites, or, where
\* structures are built during the run, the player's whole half of the arena.
TilesOf(l) == IF l = "fortify" THEN {c \in Board : InArenaBounds(c)}
              ELSE SitesOf(l)

\* The snapshots a turn may bring: any choice on the sites, nothing elsewhere.
Snapshots(l) ==
    {[c \in TilesOf(l) |-> IF c \in SitesOf(l) THEN m[c] ELSE << >>] :
        m \in {n \in [SitesOf(l) -> UNION {ChoicesAt(l, c) : c \in SitesOf(l)}] :
                  \A c \in SitesOf(l) : n[c] \in ChoicesAt(l, c)}}

\* GameMap.__getitem__: the list of structures on a tile.
MapAt(m, c) == IF c \in DOMAIN m THEN m[c] ELSE << >>

\* ------------------------------------------------------------------------
\* Region operations
\* ------------------------------------------------------------------------

\* Iteration order of a set of tiles (self.coordinates is a Python set; its
\* order is fixed for a given region).  Lexicographic here.
RECURSIVE TilesInOrder(_)
TilesInOrder(S) ==
    IF S = {} THEN << >>
    ELSE LET c == CHOOSE a \in S : \A b \in S :
                      a[1] < b[1] \/ (a[1] = b[1] /\ a[2] <= b[2])
         IN  <<c>> \o TilesInOrder(S \ {c})

\* Region.update_structures, the inventory: every structure found on a
\* non-OUTSIDE tile is appended to the list of its kind.  The lists are not
\* emptied first.
ScanUnits(region, units, m) ==
    LET tiles == TilesInOrder({c \in region.coordinates \cap DOMAIN m :
                                  region.grid_type[c] # -1 /\ m[c] # << >>})
        found(k) == SelectSeq([i \in 1..Len(tiles) |-> m[tiles[i]][1]],
                              LAMBDA u : u.type = k)
    IN  [k \in UnitKinds |-> units[k] \o found(k)]

\* update_structures recording the occupant of every tile of the map,
\* OUTSIDE tiles included.
ScanGridUnitAll(region, grid_unit, m) ==
    [c \in DOMAIN grid_unit |->
        IF MapAt(m, c) = << >> THEN grid_unit[c]
        ELSE IF MapAt(m, c)[1].type \in UnitKinds THEN <<MapAt(m, c)[1]>>
        ELSE grid_unit[c]]

\* Region.update_structures, the occupants: a tile holding a turret, factory
\* or wall records it; for an empty tile the code assigns None into the
\* temporary list built by __getitem__, which leaves grid_unit as it was.
ScanGridUnit(region, grid_unit, m) ==
    [c \in DOMAIN grid_unit |->
        IF region.grid_type[c] = -1 THEN grid_unit[c]
        ELSE IF MapAt(m, c) = << >> THEN grid_unit[c]
        ELSE IF MapAt(m, c)[1].type \in UnitKinds THEN <<MapAt(m, c)[1]>>
        ELSE grid_unit[c]]

\* Region.damage_regions at a tile: the zero-filled local array allocated by
\* __init__, or, once update_damage_regions has run, a view of the Defense's.
RegionDamage(view, dmg, c) == IF view THEN dmg[c] ELSE 0

RECURSIVE SumSeq(_)
SumSeq(s) == IF s = << >> THEN 0 ELSE Head(s) + SumSeq(Tail(s))

AllUnits(units) == units[TURRET] \o units[FACTORY] \o units[WALL]

\* cost[0] * (health / max_health), in units of 1 / HealthScale.
Prorated(u) == (u.cost * u.health * HealthScale) \div u.max_health

\* Region.calculate_region_cost (health_prorated), in units of 1 / HealthScale.
calculate_region_cost(units, defensive_only) ==
    LET all == AllUnits(units)
    IN  SumSeq([i \in 1..Len(all) |->
                  IF defensive_only /\ all[i].type = FACTORY THEN 0
                  ELSE Prorated(all[i])])

\* Region.calculate_overall_health.
calculate_overall_health(units, defensive_only) ==
    LET all == AllUnits(units)
    IN  SumSeq([i \in 1..Len(all) |->
                  IF defensive_only /\ all[i].type = FACTORY THEN 0
                  ELSE all[i].health])

\* Region.undefended_tiles: the tiles of self.coordinates with damage 0.
undefended_tiles(region, view, dmg) ==
    {c \in region.coordinates : RegionDamage(view, dmg, c) = 0}

\* Region.average_tile_damage returns total_damage / tile_count; the state
\* keeps the numerator, the denominator is region.tile_count.
TotalTileDamage(region, view, dmg) ==
    SumOver([c \in region.coordinates |-> RegionDamage(view, dmg, c)],
            region.coordinates)

\* Region.average_tile_damage: total_damage / self.tile_count.  total_damage
\* is a numpy scalar once a tile has been added, and numpy answers a zero
\* divisor with nan (0 / 0) or inf and a RuntimeWarning; with no tile at all
\* it is the int 0 and Python raises ZeroDivisionError.
average_tile_damage(region, view, dmg) ==
    LET total == TotalTileDamage(region, view, dmg)
    IN  IF region.tile_count # 0
        THEN [kind |-> "quotient", num |-> total, den |-> region.tile_count]
        ELSE IF region.coordinates = {}
        THEN [kind |-> "ZeroDivisionError", num |-> 0, den |-> 0]
        ELSE [kind |-> IF total = 0 THEN "nan" ELSE "inf", num |-> total, den |-> 0]

\* Region.calculate_region_states.
calculate_region_states(region, units, view, dmg) ==
    [AVG_TILE_DMG_NUM   |-> TotalTileDamage(region, view, dmg),
     REGION_COST_ALL    |-> calculate_region_cost(units, FALSE),
     REGION_COST_DEF    |-> calculate_region_cost(units, TRUE),
     OVERALL_HEALTH_ALL |-> calculate_overall_health(units, FALSE),
     OVERALL_HEALTH_DEF |-> calculate_overall_health(units, TRUE),
     UNDEFENDED_TILES   |-> undefended_tiles(region, view, dmg)]

\* ------------------------------------------------------------------------
\* Defense operations
\* ------------------------------------------------------------------------

\* Defense.initialize_coordinate_regions (player 0): the last region, in
\* index order, whose coordinates contain the tile; -1 where there is none.
coordinate_regions(regions) ==
    [c \in Board |->
        LET owners == {i \in DOMAIN regions : c \in regions[i].coordinates}
        IN  IF owners = {} THEN -1 ELSE SetMax(owners)]

\* The regions a Defense creates for its player.
DefenseRegions(player_id) == IF player_id = 0 THEN OurRegions ELSE EnemyRegions

\* Defense.offset_coord dropping the half-board offset.
offset_coord_none(player_id, coord) == coord

\* Defense.offset_coord.
offset_coord(player_id, coord) ==
    IF player_id = 1 THEN <<coord[1], coord[2] - HALF_ARENA>> ELSE coord

\* Indexing the (28, 14) arrays of the Defense: an index i of an axis of
\* length n is accepted for -n <= i < n, a negative one counting from the end.
ValidIndex(idx) ==
    /\ -ARENA_SIZE <= idx[1] /\ idx[1] < ARENA_SIZE
    /\ -HALF_ARENA <= idx[2] /\ idx[2] < HALF_ARENA
WrapIndex(idx) ==
    <<IF idx[1] < 0 THEN idx[1] + ARENA_SIZE ELSE idx[1],
      IF idx[2] < 0 THEN idx[2] + HALF_ARENA ELSE idx[2]>>

\* Defense.initialize_coordinate_regions: every coordinate of every region, in
\* index order, writes the region's index at the twice-offset coordinate;
\* << >> when one of these indices is refused (IndexError).
initialize_coordinate_regions(regions, player_id) ==
    LET at(c) == offset_coord(player_id, offset_coord(player_id, c))
        all == UNION {regions[i].coordinates : i \in DOMAIN regions}
    IN  IF \E c \in all : ~ValidIndex(at(c)) THEN << >>
        ELSE [idx \in Board |->
                LET owners == {i \in DOMAIN regions :
                                  \E c \in regions[i].coordinates :
                                      WrapIndex(at(c)) = idx}
                IN  IF owners = {} THEN -1 ELSE SetMax(owners)]

\* The lookup table of the Defense of each player.
CoordinateRegionsOf ==
    [player_id \in {0, 1} |->
        initialize_coordinate_regions(DefenseRegions(player_id), player_id)]

\* Defense.get_region.
get_region(table, player_id, coord) ==
    LET idx == offset_coord(player_id, coord)
    IN  IF table = << >> \/ ~ValidIndex(idx)
        THEN [err |-> "IndexError", value |-> -1]
        ELSE [err |-> "", value |-> table[WrapIndex(idx)]]

\* Defense.initialize_grid (player 0): 1 on every tile of a region, 0 on the
\* two arena edges of the half, -1 elsewhere.
DefenseGridType(regions) ==
    LET cr == coordinate_regions(regions)
        breach == SeqRange(edge_coordinates(<< <<0, 13>>, <<13, 0>> >>)) \cup
                  SeqRange(edge_coordinates(<< <<14, 0>>, <<27, 13>> >>))
    IN  [c \in Board |-> IF c \in breach THEN 0
                         ELSE IF cr[c] # -1 THEN 1 ELSE -1]

OurGridType == DefenseGridType(OurRegions)
ScenarioGridType == DefenseGridType(ScenarioRegions)
grid_type == IF layout \in {"scenario", "paths"} THEN ScenarioGridType
             ELSE OurGridType

\* An update_defense that leaves the inventory of the Defense as it was.
DefenseScanKept(m) == def_units

\* Defense.update_defense, the Defense-level inventory: reset, then one pass
\* over the player's half (x outer, y inner) collecting walls, turrets and
\* factories.
DefenseScan(m) ==
    LET tiles == TilesInOrder({c \in DOMAIN m : c \in Board /\ InArenaBounds(c)
                                                 /\ m[c] # << >>})
        found(k) == SelectSeq([i \in 1..Len(tiles) |-> m[tiles[i]][1]],
                              LAMBDA u : u.type = k)
    IN  [k \in UnitKinds |-> found(k)]

\* GameMap.get_locations_in_range: the arena tiles whose centre lies within
\* `radius` of the location; radius2 is twice the radius (5 for 2.5, 7 for 3.5).
get_locations_in_range(loc, radius2) ==
    {c \in ((loc[1] - 4)..(loc[1] + 4)) \X ((loc[2] - 4)..(loc[2] + 4)) :
        /\ InArenaBounds(c)
        /\ 4 * ((c[1] - loc[1]) * (c[1] - loc[1]) + (c[2] - loc[2]) * (c[2] - loc[2]))
              <= radius2 * radius2}

\* The damage one turret adds at tile c in Defense.calculate_damage_regions:
\* 15 within radius 3.5 when upgraded, 5 within radius 2.5 otherwise; tiles
\* with grid_type -1 or beyond row 13 are skipped.
TurretDamageAt(gt, turret, c) ==
    LET damage  == IF turret.upgraded THEN 15 ELSE 5
        radius2 == IF turret.upgraded THEN 7 ELSE 5
    IN  IF /\ c \in get_locations_in_range(<<turret.x, turret.y>>, radius2)
           /\ ~(gt[c] = -1 \/ c[2] > 13)
        THEN damage ELSE 0

\* calculate_damage_regions adding the turrets' damage whatever the flag.
calculate_damage_regions_always(gt, dmg, turrets, flag) ==
    [c \in Board |->
        dmg[c] + SumSeq([i \in 1..Len(turrets) |->
                           TurretDamageAt(gt, turrets[i], c)])]

\* Defense.calculate_damage_regions: when the flag is set, every turret of
\* the Defense inventory adds its damage onto the stored field.
calculate_damage_regions(gt, dmg, turrets, flag) ==
    IF flag
    THEN [c \in Board |->
            dmg[c] + SumSeq([i \in 1..Len(turrets) |->
                               TurretDamageAt(gt, turrets[i], c)])]
    ELSE dmg

\* ------------------------------------------------------------------------
\* Defense.weakest_region
\* ------------------------------------------------------------------------
TURRET_TO_WALL_RATIO == 1

\* Scores are fractions <<numerator, denominator>> with denominator > 0.
FracLess(a, b) == a[1] * b[2] < b[1] * a[2]

\* The running minimum of the HEALTH, DEFENSIVE POWER and AVG TILE DMG
\* branches: start from (id 0, the initial score), replace on a strictly
\* smaller score.  Returns <<id, score>> after the first n candidates.
RECURSIVE MinScanReversed(_, _, _, _)
MinScanReversed(cands, score, start, n) ==
    IF n = 0 THEN <<0, start>>
    ELSE LET prev == MinScanReversed(cands, score, start, n - 1)
         IN  IF FracLess(prev[2], score[cands[n]])
             THEN <<cands[n], score[cands[n]]>>
             ELSE prev

RECURSIVE MinScan(_, _, _, _)
MinScan(cands, score, start, n) ==
    IF n = 0 THEN <<0, start>>
    ELSE LET prev == MinScan(cands, score, start, n - 1)
         IN  IF FracLess(score[cands[n]], prev[2])
             THEN <<cands[n], score[cands[n]]>>
             ELSE prev

\* The running maximum of the UNDEFENDED TILES branch: start from (id 0,
\* count 0), replace on a strictly larger count.
RECURSIVE MaxScan(_, _, _)
MaxScan(cands, count, n) ==
    IF n = 0 THEN <<0, 0>>
    ELSE LET prev == MaxScan(cands, count, n - 1)
         IN  IF count[cands[n]] > prev[2]
             THEN <<cands[n], count[cands[n]]>>
             ELSE prev

\* Sum of the prorated costs of the structures of one kind in a region's
\* inventory, in units of 1 / HealthScale.
KindPower(units, kind) ==
    LET all == AllUnits(units)
    IN  SumSeq([i \in 1..Len(all) |->
                  IF all[i].type = kind THEN Prorated(all[i]) ELSE 0])

\* min(region_turret_power, region_wall_power) of the DEFENSIVE POWER branch.
DefensivePower(units) ==
    Min2(KindPower(units, TURRET) * TURRET_TO_WALL_RATIO, KindPower(units, WALL))

\* Defense.weakest_region.  The returned value is <<id>>; << >> stands for
\* None, which the function returns when no branch matches the criteria.
weakest_region(regions, units, states, criteria, cands) ==
    IF criteria = "HEALTH"
    THEN <<MinScan(cands,
                   [i \in DOMAIN regions |-> <<states[i].OVERALL_HEALTH_DEF, 1>>],
                   <<1000000000, 1>>, Len(cands))[1]>>
    ELSE IF criteria = "UNDEFENDED TILES"
    THEN <<MaxScan(cands,
                   [i \in DOMAIN regions |-> Cardinality(states[i].UNDEFENDED_TILES)],
                   Len(cands))[1]>>
    ELSE IF criteria = "DEFENSIVE POWER"
    THEN <<MinScan(cands,
                   [i \in DOMAIN regions |-> <<DefensivePower(units[i]), HealthScale>>],
                   <<100000000, 1>>, Len(cands))[1]>>
    ELSE IF criteria = "AVG TILE DMG"
    THEN <<MinScan(cands,
                   [i \in DOMAIN regions |->
                       <<states[i].AVG_TILE_DMG_NUM, regions[i].tile_count>>],
                   <<100000000, 1>>, Len(cands))[1]>>
    ELSE << >>

\* ------------------------------------------------------------------------
\* The game state handed to the build routines (gamelib.GameState)
\* ------------------------------------------------------------------------
\* A game state g is [sp, map, cmds]: the structure-point balance
\* (get_resource(0, 0)), the board, and the spawn, upgrade and remove
\* commands submitted so far, oldest first.

\* Cost of upgrading a structure, in structure points (game configuration).
UpgradeCost(type) == CASE type = WALL -> 1 [] type = TURRET -> 4 [] OTHER -> 9

\* GameState.can_spawn: the tile is on the player's half, free, and the
\* structure is affordable.
can_spawn(g, type, loc) ==
    /\ loc \in DOMAIN g.map
    /\ g.map[loc] = << >>
    /\ g.sp >= UnitCost(type)

\* GameState.attempt_spawn over a list of locations: each location that can
\* be spawned on gets the structure at full health and its cost is paid.
RECURSIVE attempt_spawn(_, _, _)
attempt_spawn(g, type, locs) ==
    IF locs = << >> THEN g
    ELSE LET loc == Head(locs)
             g1 == IF can_spawn(g, type, loc)
                   THEN [sp   |-> g.sp - UnitCost(type),
                         map  |-> [g.map EXCEPT ![loc] =
                                     <<MkUnit(loc, type, FALSE, UnitMaxHealth(type))>>],
                         cmds |-> Append(g.cmds, <<"spawn", type, loc>>)]
                   ELSE g
         IN  attempt_spawn(g1, type, Tail(locs))

\* GameState.attempt_upgrade over a list of locations: a structure that is
\* not upgraded yet is upgraded when the upgrade is affordable.
RECURSIVE attempt_upgrade(_, _)
attempt_upgrade(g, locs) ==
    IF locs = << >> THEN g
    ELSE LET loc == Head(locs)
             ok  == /\ loc \in DOMAIN g.map
                    /\ g.map[loc] # << >>
                    /\ ~g.map[loc][1].upgraded
                    /\ g.sp >= UpgradeCost(g.map[loc][1].type)
             g1  == IF ok
                    THEN [sp   |-> g.sp - UpgradeCost(g.map[loc][1].type),
                          map  |-> [g.map EXCEPT ![loc] =
                                      <<[g.map[loc][1] EXCEPT !.upgraded = TRUE]>>],
                          cmds |-> Append(g.cmds, <<"upgrade", g.map[loc][1].type, loc>>)]
                    ELSE g
         IN  attempt_upgrade(g1, Tail(locs))

\* GameState.attempt_remove of one location: a structure standing there is
\* marked for removal; it leaves the board when the turn ends.
attempt_remove(g, loc) ==
    IF loc \in DOMAIN g.map /\ g.map[loc] # << >>
    THEN [g EXCEPT !.cmds = Append(g.cmds, <<"remove", g.map[loc][1].type, loc>>)]
    ELSE g

\* ------------------------------------------------------------------------
\* Defense.rebuild_routine and Defense.build_corners
\* ------------------------------------------------------------------------
MIN_TURN_TO_FORTIFY_BACK_REGIONS == 3

\* A rebuild threshold that the early turns of a run are already above.
EarlyTurnRebuild == MIN_TURN_TO_FORTIFY_BACK_REGIONS - 1

MIN_TURN_REBUILD == 10

\* [above, right, left] of a structure.
AboveRightLeft(u) == << <<u.x, u.y + 1>>, <<u.x + 1, u.y>>, <<u.x - 1, u.y>> >>

\* A queue handing out its newest entry first.
QueueGetNewest(q) == [elem |-> q[Len(q)], rest |-> SubSeq(q, 1, Len(q) - 1)]

\* queue.Queue.get on a non-empty queue: the oldest entry, and the queue
\* without it.
QueueGet(q) == [elem |-> Head(q), rest |-> Tail(q)]

\* First loop of rebuild_routine: while the queue holds an entry and the
\* balance is at least 4, take an entry and re-spawn the turret; on success
\* wall it in and, when the entry says UPGRADE, call attempt_upgrade on the
\* three wall locations once per location.  Returns the game state and the
\* entries taken, in the order of the get calls.
RECURSIVE RebuildTurrets(_, _)
RebuildTurrets(g, q) ==
    IF q = << >> \/ g.sp < 4 THEN [g |-> g, got |-> << >>]
    ELSE LET elem == QueueGet(q).elem
             g1 == attempt_spawn(g, TURRET, <<elem.COORD>>)
             loc == AboveRightLeft(g1.map[elem.COORD][1])
             g2 == attempt_spawn(g1, WALL, loc)
             g3 == IF elem.UPGRADE
                   THEN attempt_upgrade(attempt_upgrade(attempt_upgrade(g2, loc),
                                                        loc), loc)
                   ELSE g2
             r  == RebuildTurrets(IF Len(g1.cmds) > Len(g.cmds) THEN g3 ELSE g1,
                                  QueueGet(q).rest)
         IN  [g |-> r.g, got |-> <<elem>> \o r.got]

\* Second loop of rebuild_routine: take an entry and re-spawn the wall; on
\* success upgrade it.  Returns the game state and the entries taken.
RECURSIVE RebuildWalls(_, _)
RebuildWalls(g, q) ==
    IF q = << >> \/ g.sp < 4 THEN [g |-> g, got |-> << >>]
    ELSE LET elem == QueueGet(q).elem
             g1 == attempt_spawn(g, WALL, <<elem.COORD>>)
             g2 == attempt_upgrade(g1, <<elem.COORD>>)
             r  == RebuildWalls(IF Len(g1.cmds) > Len(g.cmds) THEN g2 ELSE g1,
                                QueueGet(q).rest)
         IN  [g |-> r.g, got |-> <<elem>> \o r.got]

\* health < 0.75 * max_health (PERCENT_TO_REBUILD_TURRET and _WALL).
BelowRebuildThreshold(u) == 4 * u.health < 3 * u.max_health

\* The closing loops of rebuild_routine over one list of the Defense
\* inventory: a structure below the threshold is queued and removed.
\* Returns [g, q].
RECURSIVE QueueDamaged(_, _, _)
QueueDamaged(g, q, units) ==
    IF units = << >> THEN [g |-> g, q |-> q]
    ELSE LET u == Head(units)
         IN  IF BelowRebuildThreshold(u)
             THEN QueueDamaged(attempt_remove(g, <<u.x, u.y>>),
                               Append(q, [COORD |-> <<u.x, u.y>>,
                                          UPGRADE |-> u.upgraded]),
                               Tail(units))
             ELSE QueueDamaged(g, q, Tail(units))

\* Defense.rebuild_routine.  Both queues are replaced by fresh ones after
\* their loop, whatever was left in them.  Returns the game state, the
\* two queues, and the entries the two loops took from the old queues.
rebuild_routine(g, turrets_to_rebuild, walls_to_rebuild, units) ==
    LET r1 == RebuildTurrets(g, turrets_to_rebuild)
        r2 == RebuildWalls(r1.g, walls_to_rebuild)
        t  == QueueDamaged(r2.g, << >>, units[TURRET])
        w  == QueueDamaged(t.g, << >>, units[WALL])
    IN  [g |-> w.g, turrets_to_rebuild |-> t.q, walls_to_rebuild |-> w.q,
         got |-> [turrets |-> r1.got, walls |-> r2.got]]

\* Defense.build_corners: walls on (i, 13) and (27 - i, 13) for i = 0..3,
\* each followed by an upgrade of both.
RECURSIVE build_corners_from(_, _)
build_corners_from(g, i) ==
    IF i > 3 THEN g
    ELSE LET l  == <<i, 13>>
             r  == <<27 - i, 13>>
             g1 == IF can_spawn(g, WALL, l) THEN attempt_spawn(g, WALL, <<l>>) ELSE g
             g2 == IF can_spawn(g1, WALL, r) THEN attempt_spawn(g1, WALL, <<r>>) ELSE g1
         IN  build_corners_from(attempt_upgrade(g2, <<l, r>>), i + 1)

build_corners(g) == build_corners_from(g, 0)

\* ------------------------------------------------------------------------
\* Region.fortify_region_defenses (the build heuristic of a region)
\* ------------------------------------------------------------------------
MIN_TURN_UPGRADE == 8
MAX_TURRETS == 5

LexLess(a, b) == a[1] < b[1] \/ (a[1] = b[1] /\ a[2] < b[2])
LexMin(S) == CHOOSE a \in S : \A b \in S : a = b \/ LexLess(a, b)
LexMax(S) == CHOOSE a \in S : \A b \in S : a = b \/ LexLess(b, a)

\* Region.in_bounds.
in_bounds(region, c) ==
    /\ region.xbounds[1] <= c[1] /\ c[1] <= region.xbounds[2]
    /\ region.ybounds[1] <= c[2] /\ c[2] <= region.ybounds[2]

\* Region.calculate_optimal_turret_placement.  The loop keeps the last tile,
\* in the iteration order of the set self.coordinates, that is INTERIOR, has
\* no recorded occupant and lies at a positive summed distance from the
\* turrets of the inventory (the best distance is never raised above 0);
\* without such a tile the answer is the first tile of the set.  The order of
\* a Python set is not fixed by the program: the operator gives the answers
\* under the ascending and the descending lexicographic order.
calculate_optimal_turret_placement(region, units, grid_unit) ==
    LET eligible == {c \in region.coordinates :
                        /\ c \in DOMAIN grid_unit => grid_unit[c] = << >>
                        /\ region.grid_type[c] # 0
                        /\ \E i \in 1..Len(units[TURRET]) :
                              <<units[TURRET][i].x, units[TURRET][i].y>> # c}
    IN  IF eligible = {}
        THEN {LexMin(region.coordinates), LexMax(region.coordinates)}
        ELSE {LexMin(eligible), LexMax(eligible)}

\* Region.calculate_optimal_turret_upgrade: << >> (None) without turrets,
\* else the position of the last non-upgraded turret that is at least as high
\* as those before it, (0, 0) when every turret is upgraded.
RECURSIVE HighestTurret(_, _)
HighestTurret(turrets, n) ==
    IF n = 0 THEN <<0, 0>>
    ELSE LET prev == HighestTurret(turrets, n - 1)
         IN  IF ~turrets[n].upgraded /\ turrets[n].y >= prev[2]
             THEN <<turrets[n].x, turrets[n].y>>
             ELSE prev

calculate_optimal_turret_upgrade(units) ==
    IF Len(units[TURRET]) = 0 THEN << >>
    ELSE HighestTurret(units[TURRET], Len(units[TURRET]))

\* Region.place_walls_near_turrets with count = 1: a wall above every turret
\* of the inventory, upgraded when asked and the tile is in bounds.
RECURSIVE place_walls_near_turrets(_, _, _, _)
place_walls_near_turrets(g, region, turrets, upgrade) ==
    IF turrets = << >> THEN g
    ELSE LET above == AboveRightLeft(Head(turrets))[1]
             g1 == attempt_spawn(g, WALL, <<above>>)
             g2 == IF upgrade /\ in_bounds(region, above)
                   THEN attempt_upgrade(g1, <<above>>) ELSE g1
         IN  place_walls_near_turrets(g2, region, Tail(turrets), upgrade)

\* Region.fortify_region_defenses: the game states it can leave behind, one
\* per answer of calculate_optimal_turret_placement.
fortify_region_defenses(g, region, units, grid_unit, turn_number) ==
    LET T  == Len(units[TURRET])
        g1 == IF T > 2 * Len(units[WALL])
              THEN place_walls_near_turrets(g, region, units[TURRET],
                                            turn_number >= MIN_TURN_UPGRADE)
              ELSE g
        place == {attempt_spawn(g1, TURRET, <<c>>) :
                     c \in calculate_optimal_turret_placement(region, units, grid_unit)}
        weak == \E i \in 1..T :
                   2 * units[TURRET][i].health < units[TURRET][i].max_health
    IN  IF T <= 1 THEN place
        ELSE IF MAX_TURRETS > T
        THEN IF weak /\ g1.sp >= 2 THEN place
             ELSE IF g1.sp >= 4
             THEN IF calculate_optimal_turret_upgrade(units) = << >>
                  THEN {g1}
                  ELSE place
             ELSE {g1}
        ELSE {g1}

\* ------------------------------------------------------------------------
\* Paths (Region.bfs, calculate_paths, simulate_average_damage)
\* ------------------------------------------------------------------------
\* Region.__getitem__(c)[1]: the occupant recorded on a tile, << >> for None.
GridUnitAt(grid_unit, c) == IF c \in DOMAIN grid_unit THEN grid_unit[c] ELSE << >>

\* adjacents = [above, below, right, left].
Adjacents(s) == << <<s[1], s[2] + 1>>, <<s[1], s[2] - 1>>,
                   <<s[1] + 1, s[2]>>, <<s[1] - 1, s[2]>> >>

Reverse(s) == [i \in 1..Len(s) |-> s[Len(s) + 1 - i]]

\* An entry of path_dict: a list of coordinates, or the iterator reversed()
\* returns, of which `items` are the coordinates it has yet to yield.
EmptyPath == [kind |-> "list", items |-> << >>]
ListPath(items) == [kind |-> "list", items |-> items]
ReversedPath(items) == [kind |-> "reversed", items |-> items]

\* `if path:` -- a list is true when non-empty, an iterator always.
Truthy(entry) == entry.kind = "reversed" \/ entry.items # << >>

\* path_dict = {start: {end: [] ...} ...} over all_boundaries.
ResetTable(region) ==
    [s \in region.all_boundaries |-> [e \in region.all_boundaries |-> EmptyPath]]

\* Region.bfs recording only path_dict[start][adj].
bfs_forward_only(region, grid_unit, start, table) ==
    LET adj == Adjacents(start)
        occ == SelectSeq(adj, LAMBDA a : in_bounds(region, a)
                                           /\ GridUnitAt(grid_unit, a) # << >>)
        hits == SelectSeq(occ, LAMBDA a : region.grid_type[a] = 0)
        path == <<start>> \o [i \in 1..Len(hits) |-> adj[1]]
        rec[j \in 0..Len(hits)] ==
            IF j = 0 THEN table
            ELSE [rec[j - 1] EXCEPT ![start][hits[j]] = ListPath(path)]
    IN  IF start \notin DOMAIN table
        THEN [table |-> table, err |-> "KeyError"]
        ELSE [table |-> rec[Len(hits)],
              err |-> IF Len(occ) > Len(hits) THEN "TypeError" ELSE ""]

\* Region.bfs from one entrance.  Of the neighbours of `start` inside the
\* bounding box only those with a recorded occupant go on (`if self[adj][1]
\* is None: continue`).  An occupied BOUNDARY neighbour appends `above` (the
\* tile above `start`) to the one list `path`, stores that list under
\* [start][adj] and an iterator over its reversal, as long as the list is at
\* that moment, under [adj][start].  An occupied neighbour that is not
\* BOUNDARY queues [path + above]; popping it after the neighbours are done
\* raises TypeError (list + int), so nothing is ever expanded.  `visited`
\* is written and never consulted.
bfs(region, grid_unit, start, table) ==
    LET adj == Adjacents(start)
        occ == SelectSeq(adj, LAMBDA a : in_bounds(region, a)
                                           /\ GridUnitAt(grid_unit, a) # << >>)
        hits == SelectSeq(occ, LAMBDA a : region.grid_type[a] = 0)
        path == <<start>> \o [i \in 1..Len(hits) |-> adj[1]]
        rec[j \in 0..Len(hits)] ==
            IF j = 0 THEN table
            ELSE [[rec[j - 1] EXCEPT ![start][hits[j]] = ListPath(path)]
                     EXCEPT ![hits[j]][start] =
                                ReversedPath(Reverse(SubSeq(path, 1, 1 + j)))]
    IN  IF start \notin DOMAIN table
        THEN [table |-> table, err |-> "KeyError"]
        ELSE [table |-> rec[Len(hits)],
              err |-> IF Len(occ) > Len(hits) THEN "TypeError" ELSE ""]

\* The entrances in the order calculate_paths and simulate_average_damage
\* visit them: the tiles of each incoming edge, edge after edge.
RECURSIVE EntrancesFrom(_, _)
EntrancesFrom(region, i) ==
    IF i > Len(region.incoming_edges) THEN << >>
    ELSE edge_coordinates(region.incoming_edges[i]) \o EntrancesFrom(region, i + 1)
Entrances(region) == EntrancesFrom(region, 1)

\* The loop of calculate_paths: one bfs per entrance, until one raises.
RECURSIVE BfsAll(_, _, _, _)
BfsAll(region, grid_unit, ents, table) ==
    IF ents = << >> THEN [table |-> table, err |-> ""]
    ELSE LET b == bfs(region, grid_unit, Head(ents), table)
         IN  IF b.err # "" THEN b
             ELSE BfsAll(region, grid_unit, Tail(ents), b.table)

\* calculate_paths keeping the table it has once computed.
calculate_paths_once(region, grid_unit, flag, table) ==
    IF table = << >>
    THEN BfsAll(region, grid_unit, Entrances(region), ResetTable(region))
    ELSE [table |-> table, err |-> ""]

\* Region.calculate_paths: when recalculate_paths is set, the table is reset
\* and filled by the searches; otherwise it is left as it is.
calculate_paths(region, grid_unit, flag, table) ==
    IF flag
    THEN BfsAll(region, grid_unit, Entrances(region), ResetTable(region))
    ELSE [table |-> table, err |-> ""]

\* Speed of the mobile units: SCOUT 1, DEMOLISHER 2, INTERCEPTOR 4.
Speeds == {1, 2, 4}

\* The entries simulate_average_damage visits: for every entrance, in order,
\* every entry of its row that is true at that moment.  Iterating an entry of
\* kind "reversed" uses it up, so the second visit of a row (an entrance met
\* on two incoming edges) finds its iterators exhausted.
RECURSIVE VisitRows(_, _, _)
VisitRows(region, ents, table) ==
    IF ents = << >> THEN [table |-> table, visited |-> << >>]
    ELSE LET e == Head(ents)
             row == TilesInOrder({x \in DOMAIN table[e] : Truthy(table[e][x])})
             seen == [i \in 1..Len(row) |-> table[e][row[i]].items]
             used == [table EXCEPT ![e] =
                        [x \in DOMAIN table[e] |->
                            IF table[e][x].kind = "reversed"
                            THEN ReversedPath(<< >>) ELSE table[e][x]]]
             rest == VisitRows(region, Tail(ents), used)
         IN  [table |-> rest.table, visited |-> seen \o rest.visited]

\* Sum of damage_regions over the coordinates of the visited paths (each
\* term is divided by the speed in damage_on_path).
RECURSIVE PathDamage(_, _, _)
PathDamage(view, dmg, coords) ==
    IF coords = << >> THEN 0
    ELSE RegionDamage(view, dmg, Head(coords)) + PathDamage(view, dmg, Tail(coords))

RECURSIVE Flatten(_)
Flatten(ss) == IF ss = << >> THEN << >> ELSE Head(ss) \o Flatten(Tail(ss))

\* `if total_paths == 0: return 0`, else damage_to_units / total_paths; the
\* quotient is kept as numerator and denominator.
Average(damage, speed, total_paths) ==
    IF total_paths = 0 THEN [err |-> "", value |-> <<0, 1>>]
    ELSE [err |-> "", value |-> <<damage, speed * total_paths>>]

\* Region.simulate_average_damage: calculate_paths, then every true entry of
\* the entrances' rows is counted and summed by damage_on_path, which indexes
\* damage_regions with the zeroed coordinate: a coordinate past the bounding
\* box raises IndexError.
simulate_average_damage(region, grid_unit, flag, table, view, dmg, speed) ==
    LET cp == calculate_paths(region, grid_unit, flag, table)
        vr == VisitRows(region, Entrances(region), cp.table)
        coords == Flatten(vr.visited)
        avg == Average(PathDamage(view, dmg, coords), speed, Len(vr.visited))
        base == [computed |-> cp.table, table |-> cp.table, err |-> cp.err,
                 total_paths |-> 0, value |-> << >>]
    IN  IF cp.err # "" THEN base
        ELSE IF \E i \in 1..Len(coords) : ~in_bounds(region, coords[i])
        THEN [base EXCEPT !.table = vr.table, !.err = "IndexError"]
             \* (how many iterators were used up before the error depends on
             \* the order of the rows; the table is reset before its next use)
        ELSE [base EXCEPT !.table = vr.table, !.err = avg.err,
                          !.total_paths = Len(vr.visited), !.value = avg.value]

\* ------------------------------------------------------------------------
\* Region construction from a polygon
\* ------------------------------------------------------------------------
\* Vertices are drawn from the square (0..PolyMax) x (0..PolyMax).
PolyMax == 3
PolyPoints == (0..PolyMax) \X (0..PolyMax)

Cross(p, q, r) == (q[1] - p[1]) * (r[2] - p[2]) - (q[2] - p[2]) * (r[1] - p[1])
Sign(n) == IF n > 0 THEN 1 ELSE IF n < 0 THEN -1 ELSE 0

\* An edge Region.edge_coordinates supports: vertical, horizontal or at 45
\* degrees.
AlignedEdge(p, q) ==
    /\ p # q
    /\ p[1] = q[1] \/ p[2] = q[2] \/ Abs(p[1] - q[1]) = Abs(p[2] - q[2])

\* r lies on the closed segment p q.
OnSegment(p, q, r) ==
    /\ Cross(p, q, r) = 0
    /\ Min2(p[1], q[1]) <= r[1] /\ r[1] <= Max2(p[1], q[1])
    /\ Min2(p[2], q[2]) <= r[2] /\ r[2] <= Max2(p[2], q[2])

\* The closed segments a b and c d have a point in common.
SegmentsMeet(a, b, c, d) ==
    \/ /\ Sign(Cross(c, d, a)) * Sign(Cross(c, d, b)) < 0
       /\ Sign(Cross(a, b, c)) * Sign(Cross(a, b, d)) < 0
    \/ OnSegment(c, d, a) \/ OnSegment(c, d, b)
    \/ OnSegment(a, b, c) \/ OnSegment(a, b, d)

\* A simple polygon with supported edges: consecutive edges meet in their
\* common vertex only, other edges not at all.
SimplePolygon(v) ==
    LET n == Len(v)
        Vtx(i) == v[((i - 1) % n) + 1]
    IN  /\ \A i \in 1..n : AlignedEdge(Vtx(i), Vtx(i + 1))
        /\ \A i \in 1..n :
              \/ Cross(Vtx(i), Vtx(i + 1), Vtx(i + 2)) # 0
              \/ (Vtx(i + 1)[1] - Vtx(i)[1]) * (Vtx(i + 2)[1] - Vtx(i + 1)[1])
                   + (Vtx(i + 1)[2] - Vtx(i)[2]) * (Vtx(i + 2)[2] - Vtx(i + 1)[2]) > 0
        /\ \A i, j \in 1..n :
              (j > i + 1 /\ ~(i = 1 /\ j = n)) =>
                  ~SegmentsMeet(Vtx(i), Vtx(i + 1), Vtx(j), Vtx(j + 1))

\* The vertex lists a Region is constructed from: triangles and
\* quadrilaterals.
Polygons == {v \in [1..3 -> PolyPoints] \cup [1..4 -> PolyPoints] : SimplePolygon(v)}

\* The other triangles on the same points: with an edge that is neither
\* axis-aligned nor at 45 degrees, with a repeated vertex, or collinear.
OtherTriangles == {v \in [1..3 -> PolyPoints] : ~SimplePolygon(v)}

\* The arguments of region_print_test of python-algov1/tests.py: the back
\* region, its edges, unit_enum_map = None.
RegionPrintTest ==
    [vertices |-> << <<7, 6>>, <<20, 6>>, <<14, 0>>, <<13, 0>> >>,
     incoming |-> << <<<<7, 6>>, <<20, 6>>>> >>,
     outgoing |-> << >>,
     breach |-> << <<<<7, 6>>, <<13, 0>>>>, <<<<13, 0>>, <<14, 0>>>>,
                   <<<<14, 0>>, <<20, 6>>>> >>,
     unit_enum_map |-> "None"]

\* The arguments Region is constructed with: a polygon without declared
\* edges and the unit_enum_map of the game or None, or those of the test.
ConstructorInputs ==
    {[vertices |-> v, incoming |-> << >>, outgoing |-> << >>, breach |-> << >>,
      unit_enum_map |-> u] : v \in Polygons \cup OtherTriangles,
                             u \in {"map", "None"}}
    \cup {RegionPrintTest}

\* The exception Region.__init__ ends with, "" when it completes.  After the
\* classification `for coord in self.all_boundaries: self[coord][0] = 0`
\* indexes grid_type with the zeroed coordinate of every boundary point, which
\* numpy refuses outside -width <= i < width (IndexError); then self.units is
\* built from unit_enum_map["TURRET"], a TypeError on None.
ConstructionError(vertices, unit_enum_map) ==
    LET xs == {vertices[i][1] : i \in 1..Len(vertices)}
        ys == {vertices[i][2] : i \in 1..Len(vertices)}
        xwidth == SetMax(xs) - SetMin(xs) + 1
        ywidth == SetMax(ys) - SetMin(ys) + 1
        refused(c) == LET i == c[1] - SetMin(xs)
                          j == c[2] - SetMin(ys)
                      IN  ~(/\ -xwidth <= i /\ i < xwidth
                            /\ -ywidth <= j /\ j < ywidth)
    IN  IF \E c \in all_boundaries(vertices) : refused(c) THEN "IndexError"
        ELSE IF unit_enum_map = "None" THEN "TypeError"
        ELSE ""

\* The versions of Region.__init__ in the repository.
RegionVersions == {"v1", "v1-1"}

\* The versions of Region.edge_coordinates in the repository (python-algov1
\* has that of python-algov1-1).
EdgeVersions == {"python-algo", "v1-1"}

\* ------------------------------------------------------------------------
\* Initial state (Defense.__init__, Region.__init__ with map = None)
\* ------------------------------------------------------------------------
NoCall == [called |-> FALSE, criteria |-> "", cands |-> << >>, result |-> << >>]

EmptyUnits == [k \in UnitKinds |-> << >>]

\* No fortify_defenses call in progress; both rebuild queues empty.
NoFortify == [pc |-> "idle", fortified |-> FALSE, turn_number |-> 0,
              sp_start |-> 0, sp |-> 0,
              sp_left |-> 0, criteria |-> "", count |-> 0, cmds |-> << >>,
              heur |-> << >>, turrets_to_rebuild |-> << >>,
              walls_to_rebuild |-> << >>, rebuild |-> << >>]

\* No path operation yet.
NoPathOp == [op |-> "none", region |-> 0, err |-> "", total_paths |-> 0,
             value |-> << >>, computed |-> << >>, repeat |-> FALSE,
             prev |-> << >>]

\* No Region constructed from a polygon yet.
NoGeo == [built |-> FALSE, version |-> "", vertices |-> << >>,
          unit_enum_map |-> "", err |-> "", region |-> << >>, atd |-> << >>]

\* No function called yet.
NoFn == [op |-> "none", args |-> << >>, result |-> << >>]

\* Region.states does not exist before the first calculate_region_states;
\* this value is never read (every reader waits for turn >= 1).
NoStates == [AVG_TILE_DMG_NUM |-> 0, REGION_COST_ALL |-> 0, REGION_COST_DEF |-> 0,
             OVERALL_HEALTH_ALL |-> 0, OVERALL_HEALTH_DEF |-> 0,
             UNDEFENDED_TILES |-> {}]

\* game_state.turn_number before the first snapshot of a run: the runs
\* that fortify start just below MIN_TURN_TO_FORTIFY_BACK_REGIONS or at
\* MIN_TURN_REBUILD.
FirstTurnNumbers(l) ==
    IF l = "fortify" THEN {MIN_TURN_TO_FORTIFY_BACK_REGIONS - 1, MIN_TURN_REBUILD}
    ELSE {0}

InitFor(l) ==
    /\ layout = l
    /\ turn = 0
    /\ game_map = [c \in TilesOf(l) |-> << >>]
    /\ reg_units = [r \in RegionIds |-> EmptyUnits]
    /\ reg_grid_unit = [r \in RegionIds |->
                          [c \in Regions[r].coordinates \cap TilesOf(l) |-> << >>]]
    /\ reg_view = [r \in RegionIds |-> FALSE]
    /\ reg_states = [r \in RegionIds |-> NoStates]
    /\ def_units = EmptyUnits
    /\ damage_regions = [c \in Board |-> 0]
    /\ recalculate_damage_regions = TRUE
    /\ wr = NoCall
    /\ \E tn \in FirstTurnNumbers(l) : fort = [NoFortify EXCEPT !.turn_number = tn]
    /\ recalculate_paths = [r \in RegionIds |-> TRUE]
    /\ path_dict = [r \in RegionIds |-> << >>]
    /\ pq = NoPathOp
    /\ geo = NoGeo
    /\ fn = NoFn

Init == InitFor("our")
InitScenario == InitFor("scenario")
InitFortify == InitFor("fortify")
InitPaths == InitFor("paths")
InitGeometry == InitFor("geometry")

\* ------------------------------------------------------------------------
\* Actions
\* ------------------------------------------------------------------------

\* Defense.update_defense on the snapshot m: every region scans and
\* recomputes its states, then the Defense inventory is rebuilt and the
\* damage field is marked for recomputation.
update_defense(m) ==
    LET units == [r \in RegionIds |-> ScanUnits(Regions[r], reg_units[r], m)]
    IN  /\ reg_units' = units
        /\ reg_grid_unit' = [r \in RegionIds |->
                               ScanGridUnit(Regions[r], reg_grid_unit[r], m)]
        /\ reg_states' = [r \in RegionIds |->
                            calculate_region_states(Regions[r], units[r],
                                                    reg_view[r], damage_regions)]
        /\ def_units' = DefenseScan(m)
        /\ recalculate_damage_regions' = TRUE
        /\ recalculate_paths' = [r \in RegionIds |-> TRUE]

\* AlgoStrategy.on_turn: a new snapshot arrives and the Defense is updated
\* with it.
OnTurn ==
    /\ ~wr.called
    /\ turn < MaxTurns
    /\ \E m \in Snapshots(layout) :
          /\ game_map' = m
          /\ update_defense(m)
    /\ turn' = turn + 1
    /\ fort.pc = "idle"
    /\ fort' = [fort EXCEPT !.fortified = FALSE,
                            !.turn_number = fort.turn_number + 1]
    /\ pq' = NoPathOp
    /\ UNCHANGED <<layout, reg_view, damage_regions, wr, path_dict, geo, fn>>

\* Defense.calculate_damage_regions.
CalculateDamageRegions ==
    /\ ~wr.called
    /\ turn >= 1
    /\ damage_regions' = calculate_damage_regions(grid_type, damage_regions,
                                                  def_units[TURRET],
                                                  recalculate_damage_regions)
    /\ recalculate_damage_regions' = FALSE
    /\ UNCHANGED <<layout, turn, game_map, reg_units, reg_grid_unit, reg_view,
                   reg_states, def_units, wr, fort, recalculate_paths,
                   path_dict, pq, geo, fn>>

\* Region.update_damage_regions(defense.damage_regions): the region's field
\* becomes a slice (a view) of the Defense's array.
UpdateDamageRegions ==
    /\ ~wr.called
    /\ \E r \in RegionIds :
          /\ ~reg_view[r]
          /\ reg_view' = [reg_view EXCEPT ![r] = TRUE]
    /\ UNCHANGED <<layout, turn, game_map, reg_units, reg_grid_unit, reg_states,
                   def_units, damage_regions, recalculate_damage_regions, wr,
                   fort, recalculate_paths, path_dict, pq, geo, fn>>

\* The criteria and candidate lists weakest_region is called with.
Criteria == {"HEALTH", "UNDEFENDED TILES", "DEFENSIVE POWER", "AVG TILE DMG",
             "TURRET COUNT"}
CandidateLists(l) ==
    IF l = "our"
    THEN {<<0, 1, 2, 3>>, <<0, 1, 2, 3, 4, 5>>, <<0, 1, 2, 3, 5>>, <<3, 2>>,
          << >>}
    ELSE {<<0, 1>>, <<1, 0>>, <<1>>}

\* A call of Defense.weakest_region; wr records it.
WeakestRegionCall ==
    /\ ~wr.called
    /\ turn >= 1
    /\ \E criteria \in Criteria, cands \in CandidateLists(layout) :
          wr' = [called |-> TRUE, criteria |-> criteria, cands |-> cands,
                 result |-> weakest_region(Regions, reg_units, reg_states,
                                           criteria, cands)]
    /\ UNCHANGED <<layout, turn, game_map, reg_units, reg_grid_unit, reg_view,
                   reg_states, def_units, damage_regions,
                   recalculate_damage_regions, fort, recalculate_paths,
                   path_dict, pq, geo, fn>>

\* The caller takes the returned region id; the Defense is as before the call.
WeakestRegionReturn ==
    /\ wr.called
    /\ wr' = NoCall
    /\ UNCHANGED <<layout, turn, game_map, reg_units, reg_grid_unit, reg_view,
                   reg_states, def_units, damage_regions,
                   recalculate_damage_regions, fort, recalculate_paths,
                   path_dict, pq, geo, fn>>

\* ------------------------------------------------------------------------
\* Defense.fortify_defenses
\* ------------------------------------------------------------------------
\* Iteration cap of the fortification loop (count < 15).
FortifyIterationCap == 15

\* Largest structure-point balance a call that fortifies starts with.
MaxSP == 5

\* Balance of a call that only rebuilds: enough for two walls and their
\* upgrades.
RebuildSP == 6

\* What fortify_defenses is called with, as <<criteria, balance, sp_left>>:
\* the default criterion with a balance too small to build a turret, with
\* the default floor 3 and with the floor at the balance; two more criteria
\* with the default floor; a larger balance with the floor at the balance.
FortifyInputs ==
    {<<"DEFENSIVE POWER", 1, 0>>, <<"DEFENSIVE POWER", MaxSP, 3>>,
     <<"DEFENSIVE POWER", MaxSP, MaxSP>>, <<"UNDEFENDED TILES", MaxSP, 3>>,
     <<"TURRET COUNT", MaxSP, 3>>, <<"DEFENSIVE POWER", RebuildSP, RebuildSP>>}

\* The condition of the while loop of fortify_defenses.
LoopConditionNoCap(sp, sp_left, count) == sp > sp_left

LoopCondition(sp, sp_left, count) == sp > sp_left /\ count < FortifyIterationCap

\* regions_to_consider of the loop: range(6) above
\* MIN_TURN_TO_FORTIFY_BACK_REGIONS, range(4) otherwise.
FortifyCandidatesAll(turn_number) == <<0, 1, 2, 3, 4, 5>>

FortifyCandidates(turn_number) ==
    IF turn_number > MIN_TURN_TO_FORTIFY_BACK_REGIONS
    THEN <<0, 1, 2, 3, 4, 5>> ELSE <<0, 1, 2, 3>>

\* fortify_defenses up to the loop: above MIN_TURN_REBUILD the rebuild
\* routine and the corner walls run first.  fort.rebuild keeps what the
\* rebuild routine of this call was given and what it did: the two queues
\* as they were, the entries taken from them, the board before and after,
\* and the commands submitted.
FortifyCall ==
    /\ ~wr.called
    /\ turn >= 1
    /\ fort.pc = "idle"
    /\ ~fort.fortified
    /\ \E in \in FortifyInputs :
          LET tn == fort.turn_number
              criteria == in[1]
              sp == in[2]
              sp_left == in[3]
              g0 == [sp |-> sp, map |-> game_map, cmds |-> << >>]
              rr == IF tn > MIN_TURN_REBUILD
                    THEN rebuild_routine(g0, fort.turrets_to_rebuild,
                                         fort.walls_to_rebuild, def_units)
                    ELSE [g |-> g0,
                          turrets_to_rebuild |-> fort.turrets_to_rebuild,
                          walls_to_rebuild |-> fort.walls_to_rebuild,
                          got |-> [turrets |-> << >>, walls |-> << >>]]
              g  == IF tn > MIN_TURN_REBUILD THEN build_corners(rr.g) ELSE g0
          IN  /\ game_map' = g.map
              /\ fort' = [pc |-> "loop", fortified |-> TRUE, turn_number |-> tn,
                          sp_start |-> sp, sp |-> g.sp, sp_left |-> sp_left, criteria |-> criteria,
                          count |-> 0, cmds |-> g.cmds, heur |-> << >>,
                          turrets_to_rebuild |-> rr.turrets_to_rebuild,
                          walls_to_rebuild |-> rr.walls_to_rebuild,
                          rebuild |-> IF tn > MIN_TURN_REBUILD
                                      THEN <<[turrets_to_rebuild |-> fort.turrets_to_rebuild,
                                              walls_to_rebuild |-> fort.walls_to_rebuild,
                                              got |-> rr.got, before |-> game_map,
                                              after |-> rr.g.map,
                                              cmds |-> rr.g.cmds]>>
                                      ELSE << >>]
    /\ UNCHANGED <<layout, turn, reg_units, reg_grid_unit, reg_view, reg_states,
                   def_units, damage_regions, recalculate_damage_regions, wr,
                   recalculate_paths, path_dict, pq, geo, fn>>

\* One iteration of the loop: pick the weakest region, run its build
\* heuristic, update the Defense, count.  A criterion without a branch makes
\* weakest_region return None and self.regions[None] raises KeyError.
FortifyIterate ==
    /\ fort.pc = "loop"
    /\ LoopCondition(fort.sp, fort.sp_left, fort.count)
    /\ LET cands == FortifyCandidates(fort.turn_number)
           w == weakest_region(Regions, reg_units, reg_states, fort.criteria, cands)
       IN  IF w = << >>
           THEN /\ fort' = [fort EXCEPT !.pc = "raised"]
                /\ UNCHANGED <<game_map, reg_units, reg_grid_unit, reg_states,
                               def_units, recalculate_damage_regions,
                               recalculate_paths>>
           ELSE \E g \in fortify_region_defenses(
                            [sp |-> fort.sp, map |-> game_map, cmds |-> fort.cmds],
                            Regions[w[1]], reg_units[w[1]], reg_grid_unit[w[1]],
                            fort.turn_number) :
                  /\ game_map' = g.map
                  /\ update_defense(g.map)
                  /\ fort' = [fort EXCEPT !.sp = g.sp, !.cmds = g.cmds,
                                          !.count = fort.count + 1,
                                          !.heur = Append(fort.heur, w[1])]
    /\ UNCHANGED <<layout, turn, reg_view, damage_regions, wr, path_dict, pq, geo, fn>>

\* The loop condition fails: fortify_defenses returns.
FortifyExit ==
    /\ fort.pc = "loop"
    /\ ~LoopCondition(fort.sp, fort.sp_left, fort.count)
    /\ fort' = [fort EXCEPT !.pc = "done"]
    /\ UNCHANGED <<layout, turn, game_map, reg_units, reg_grid_unit, reg_view,
                   reg_states, def_units, damage_regions,
                   recalculate_damage_regions, wr, recalculate_paths, path_dict,
                   pq, geo, fn>>

\* Back in on_turn: the call record is dropped, the rebuild queues stay.
FortifyReturn ==
    /\ fort.pc \in {"done", "raised"}
    /\ fort' = [NoFortify EXCEPT !.fortified = TRUE,
                                 !.turn_number = fort.turn_number,
                                 !.turrets_to_rebuild = fort.turrets_to_rebuild,
                                 !.walls_to_rebuild = fort.walls_to_rebuild]
    /\ UNCHANGED <<layout, turn, game_map, reg_units, reg_grid_unit, reg_view,
                   reg_states, def_units, damage_regions,
                   recalculate_damage_regions, wr, recalculate_paths, path_dict,
                   pq, geo, fn>>

NextFortify == OnTurn \/ FortifyCall \/ FortifyIterate \/ FortifyExit
                   \/ FortifyReturn
SpecFortify == InitFortify /\ [][NextFortify]_vars

\* Region.calculate_paths on one region.  pq keeps what the call computed
\* and, when the call before it since the last scan was on the same region,
\* what that one computed.
CalculatePaths ==
    /\ \E r \in RegionIds :
          LET cp == calculate_paths(Regions[r], reg_grid_unit[r],
                                    recalculate_paths[r], path_dict[r])
              again == pq.op # "none" /\ pq.region = r
          IN  /\ path_dict' = [path_dict EXCEPT ![r] = cp.table]
              /\ pq' = [op |-> "calculate_paths", region |-> r, err |-> cp.err,
                        total_paths |-> 0, value |-> << >>,
                        computed |-> cp.table, repeat |-> again,
                        prev |-> IF again THEN pq.computed ELSE << >>]
    /\ UNCHANGED <<layout, turn, game_map, reg_units, reg_grid_unit, reg_view,
                   reg_states, def_units, damage_regions,
                   recalculate_damage_regions, wr, fort, recalculate_paths, geo, fn>>

\* Region.simulate_average_damage on one region for one kind of mobile unit.
SimulateAverageDamage ==
    /\ \E r \in RegionIds, speed \in Speeds :
          LET sim == simulate_average_damage(Regions[r], reg_grid_unit[r],
                                             recalculate_paths[r], path_dict[r],
                                             reg_view[r], damage_regions, speed)
              again == pq.op # "none" /\ pq.region = r
          IN  /\ path_dict' = [path_dict EXCEPT ![r] = sim.table]
              /\ pq' = [op |-> "simulate_average_damage", region |-> r,
                        err |-> sim.err, total_paths |-> sim.total_paths,
                        value |-> sim.value, computed |-> sim.computed,
                        repeat |-> again,
                        prev |-> IF again THEN pq.computed ELSE << >>]
    /\ UNCHANGED <<layout, turn, game_map, reg_units, reg_grid_unit, reg_view,
                   reg_states, def_units, damage_regions,
                   recalculate_damage_regions, wr, fort, recalculate_paths, geo, fn>>

NextPaths == OnTurn \/ CalculatePaths \/ SimulateAverageDamage
SpecPaths == InitPaths /\ [][NextPaths]_vars

\* Region(unit_enum_map, vertices, ..., map=None): the constructor runs on a
\* polygon and either completes with a region or ends with an exception.
ConstructRegion ==
    /\ geo = NoGeo
    /\ \E in \in ConstructorInputs, version \in RegionVersions :
          LET err == ConstructionError(in.vertices, in.unit_enum_map)
          IN  geo' = [built |-> err = "", version |-> version,
                      vertices |-> in.vertices,
                      unit_enum_map |-> in.unit_enum_map, err |-> err,
                      region |-> IF err = ""
                                 THEN RegionInitOf(in.vertices, in.incoming,
                                                   in.outgoing, in.breach, version)
                                 ELSE << >>,
                      atd |-> << >>]
    /\ UNCHANGED <<layout, turn, game_map, reg_units, reg_grid_unit, reg_view,
                   reg_states, def_units, damage_regions,
                   recalculate_damage_regions, wr, fort, recalculate_paths,
                   path_dict, pq, fn>>

\* Region.average_tile_damage on the constructed region, whose damage_regions
\* is the zero-filled array of the constructor.
AverageTileDamage ==
    /\ geo.built
    /\ geo.atd = << >>
    /\ geo' = [geo EXCEPT !.atd = <<average_tile_damage(geo.region, FALSE,
                                                       damage_regions)>>]
    /\ UNCHANGED <<layout, turn, game_map, reg_units, reg_grid_unit, reg_view,
                   reg_states, def_units, damage_regions,
                   recalculate_damage_regions, wr, fort, recalculate_paths,
                   path_dict, pq, fn>>

\* Region.edge_coordinates on an edge given in one order and in the other.
EdgeCoordinates ==
    /\ \E a \in PolyPoints, b \in PolyPoints, version \in EdgeVersions :
          fn' = [op |-> "edge_coordinates", args |-> <<version, a, b>>,
                 result |-> IF version = "python-algo"
                            THEN <<edge_coordinates_algo(<<a, b>>),
                                   edge_coordinates_algo(<<b, a>>)>>
                            ELSE <<edge_coordinates(<<a, b>>),
                                   edge_coordinates(<<b, a>>)>>]
    /\ UNCHANGED <<layout, turn, game_map, reg_units, reg_grid_unit, reg_view,
                   reg_states, def_units, damage_regions,
                   recalculate_damage_regions, wr, fort, recalculate_paths,
                   path_dict, pq, geo>>

\* Defense.get_region of the Defense of either player on a tile of the arena.
GetRegion ==
    /\ \E player_id \in {0, 1} :
       \E coord \in {c \in (0..(ARENA_SIZE - 1)) \X (0..(ARENA_SIZE - 1)) :
                        InArenaBounds(c)} :
          fn' = [op |-> "get_region", args |-> <<player_id, coord>>,
                 result |-> get_region(CoordinateRegionsOf[player_id],
                                       player_id, coord)]
    /\ UNCHANGED <<layout, turn, game_map, reg_units, reg_grid_unit, reg_view,
                   reg_states, def_units, damage_regions,
                   recalculate_damage_regions, wr, fort, recalculate_paths,
                   path_dict, pq, geo>>

NextLookup == GetRegion
SpecLookup == InitGeometry /\ [][NextLookup]_vars

NextEdges == EdgeCoordinates
SpecEdges == InitGeometry /\ [][NextEdges]_vars

NextGeometry == ConstructRegion \/ AverageTileDamage
SpecGeometry == InitGeometry /\ [][NextGeometry]_vars

Next == OnTurn \/ CalculateDamageRegions \/ WeakestRegionCall
            \/ WeakestRegionReturn
Spec == Init /\ [][Next]_vars

NextScenario == OnTurn \/ CalculateDamageRegions \/ UpdateDamageRegions
                    \/ WeakestRegionCall \/ WeakestRegionReturn
SpecScenario == InitScenario /\ [][NextScenario]_vars

\* ------------------------------------------------------------------------
\* Properties
\* ------------------------------------------------------------------------
\* The criteria weakest_region has a branch for.
ImplementedCriteria == {"HEALTH", "UNDEFENDED TILES", "DEFENSIVE POWER",
                        "AVG TILE DMG"}

\* The structures of one kind standing on the non-OUTSIDE tiles of region r
\* in the latest snapshot.
StandingUnits(r, k) ==
    {game_map[c][1] : c \in {d \in Regions[r].coordinates \cap DOMAIN game_map :
                                /\ Regions[r].grid_type[d] # -1
                                /\ game_map[d] # << >>
                                /\ game_map[d][1].type = k}}

Returned(id) == wr.result = <<id>>
ReturnedCandidate == wr.result # << >> /\ wr.result[1] \in SeqRange(wr.cands)

\* C1: for every criterion the function implements and every non-empty
\* candidate list, weakest_region returns a member of the candidate list.
C1_ResultIsCandidate ==
    (wr.called /\ wr.criteria \in ImplementedCriteria /\ wr.cands # << >>)
        => ReturnedCandidate

\* C2: after every scan, units_by_type[kind] of every region holds exactly the
\* structures of that kind standing on the region's non-OUTSIDE tiles in the
\* latest snapshot, each exactly once.
C2_InventoryIsLatestScan ==
    \A r \in RegionIds, k \in UnitKinds :
        /\ SeqRange(reg_units[r][k]) = StandingUnits(r, k)
        /\ Len(reg_units[r][k]) = Cardinality(StandingUnits(r, k))

\* C3: after every scan, the recorded occupant of every non-OUTSIDE tile is
\* the structure the snapshot holds there, and empty when it holds none.
C3_OccupantIsLatestScan ==
    \A r \in RegionIds : \A c \in DOMAIN reg_grid_unit[r] :
        Regions[r].grid_type[c] # -1 => reg_grid_unit[r][c] = MapAt(game_map, c)

\* The damage the turrets standing in the latest snapshot deal at tile c:
\* 5 within 2.5 tiles of an unupgraded turret, 15 within 3.5 of an upgraded one.
ExpectedDamage(c) ==
    LET turrets == {d \in DOMAIN game_map :
                       game_map[d] # << >> /\ game_map[d][1].type = TURRET}
        reach(d) == IF game_map[d][1].upgraded THEN 49 ELSE 25
        tier(d)  == IF game_map[d][1].upgraded THEN 15 ELSE 5
    IN  SumOver([d \in turrets |->
                   IF 4 * ((c[1] - d[1]) * (c[1] - d[1])
                           + (c[2] - d[2]) * (c[2] - d[2])) <= reach(d)
                   THEN tier(d) ELSE 0],
                turrets)

\* C4: once the field has been recomputed after the latest update_defense,
\* the damage at every tile of the half is the sum of the tier damage of the
\* turrets currently on the board whose radius reaches the tile.
C4_DamageFieldIsCurrent ==
    ~recalculate_damage_regions =>
        \A c \in Board : InArenaBounds(c) => damage_regions[c] = ExpectedDamage(c)

\* Region r holds exactly one turret, unupgraded, and no other turret stands
\* on the board; its radius covers every tile of the region.
OneTurretCovers(r) ==
    LET turrets == {d \in DOMAIN game_map :
                       game_map[d] # << >> /\ game_map[d][1].type = TURRET}
    IN  /\ Cardinality(turrets) = 1
        /\ \A d \in turrets :
              /\ d \in Regions[r].coordinates
              /\ ~game_map[d][1].upgraded
              /\ Regions[r].coordinates \subseteq get_locations_in_range(d, 5)

\* C5: when a region holds one unupgraded turret whose radius covers the whole
\* region, then after the scan and the damage recomputation the region's
\* damage field is 5 at every interior tile and undefended_tiles() is empty.
C5_CoveredRegionIsDefended ==
    \A r \in RegionIds :
        (turn >= 1 /\ ~recalculate_damage_regions /\ OneTurretCovers(r)) =>
            /\ \A c \in Regions[r].coordinates :
                  Regions[r].grid_type[c] = 1 =>
                      RegionDamage(reg_view[r], damage_regions, c) = 5
            /\ undefended_tiles(Regions[r], reg_view[r], damage_regions) = {}

\* C6: under HEALTH, the returned region's defensive-only overall health does
\* not strictly exceed that of any candidate of the same call.
C6_HealthIsMinimal ==
    (wr.called /\ wr.criteria = "HEALTH" /\ wr.cands # << >>) =>
        /\ ReturnedCandidate
        /\ \A j \in SeqRange(wr.cands) :
              reg_states[wr.result[1]].OVERALL_HEALTH_DEF
                  <= reg_states[j].OVERALL_HEALTH_DEF

\* A HEALTH call whose candidates differ in health and whose answer is not
\* the first candidate of the list.
C6_Witness ==
    /\ wr.called /\ wr.criteria = "HEALTH" /\ Len(wr.cands) >= 2
    /\ ReturnedCandidate
    /\ wr.result[1] # wr.cands[1]
    /\ reg_states[wr.result[1]].OVERALL_HEALTH_DEF
           < reg_states[wr.cands[1]].OVERALL_HEALTH_DEF

\* min(prorated wall cost, prorated turret cost x ratio) over the walls and
\* turrets currently standing in region r, in units of 1 / HealthScale.
StandingPower(r) ==
    LET power(k) == SumOver([u \in StandingUnits(r, k) |-> Prorated(u)],
                            StandingUnits(r, k))
    IN  Min2(power(TURRET) * TURRET_TO_WALL_RATIO, power(WALL))

\* C7: under DEFENSIVE POWER, the returned candidate's score, computed over
\* the walls and turrets currently standing in it, is the minimum over the
\* candidates.
C7_StandingPowerIsMinimal ==
    (wr.called /\ wr.criteria = "DEFENSIVE POWER" /\ wr.cands # << >>) =>
        /\ ReturnedCandidate
        /\ \A j \in SeqRange(wr.cands) :
              StandingPower(wr.result[1]) <= StandingPower(j)

\* C8: under UNDEFENDED TILES, the returned region is a candidate and no
\* candidate has strictly more undefended tiles.
C8_MostUndefended ==
    (wr.called /\ wr.criteria = "UNDEFENDED TILES" /\ wr.cands # << >>) =>
        /\ ReturnedCandidate
        /\ \A j \in SeqRange(wr.cands) :
              Cardinality(reg_states[j].UNDEFENDED_TILES)
                  <= Cardinality(reg_states[wr.result[1]].UNDEFENDED_TILES)

\* C9: TURRET COUNT is supported: the call returns a candidate whose turret
\* count is minimal among the candidates.
C9_FewestTurrets ==
    (wr.called /\ wr.criteria = "TURRET COUNT" /\ wr.cands # << >>) =>
        /\ ReturnedCandidate
        /\ \A j \in SeqRange(wr.cands) :
              Len(reg_units[wr.result[1]][TURRET]) <= Len(reg_units[j][TURRET])

\* The score of region r under a criterion, lower is weaker, as a fraction.
ScoreOf(criteria, r) ==
    CASE criteria = "HEALTH" -> <<reg_states[r].OVERALL_HEALTH_DEF, 1>>
      [] criteria = "UNDEFENDED TILES" ->
             <<0 - Cardinality(reg_states[r].UNDEFENDED_TILES), 1>>
      [] criteria = "DEFENSIVE POWER" -> <<DefensivePower(reg_units[r]), HealthScale>>
      [] OTHER -> <<reg_states[r].AVG_TILE_DMG_NUM, Regions[r].tile_count>>

\* Positions of the candidate list holding the best score of the call.
BestPositions ==
    {p \in 1..Len(wr.cands) :
        \A q \in 1..Len(wr.cands) :
            ~FracLess(ScoreOf(wr.criteria, wr.cands[q]),
                      ScoreOf(wr.criteria, wr.cands[p]))}

\* C10: when several candidates share the best score, the call returns the
\* one that comes first in the candidate list.
C10_FirstOfTiesWins ==
    (wr.called /\ wr.criteria \in ImplementedCriteria
        /\ Cardinality(BestPositions) >= 2)
        => Returned(wr.cands[SetMin(BestPositions)])

\* C11: a call of weakest_region with an empty candidate list fails; it does
\* not come back with a region index.
C11_EmptyCandidatesFail ==
    (wr.called /\ wr.cands = << >>) => wr.result = << >>

\* C12: a fortify_defenses call whose floor sp_left equals the balance it
\* starts with submits no spawn, upgrade or remove command, whatever the turn
\* number and the board.
C12_FloorAtBalanceDoesNothing ==
    (fort.pc # "idle" /\ fort.sp_left = fort.sp_start) => fort.cmds = << >>

\* C13: every fortify_defenses call terminates: the loop never counts beyond
\* the iteration cap of 15, and every step taken inside the loop either
\* leaves it or is one more iteration, counted, begun with the balance above
\* the floor and the count below the cap; so the loop is left after at most
\* 15 iterations, spending or not, and at once when the balance is at the floor.
C13_FortifyTerminates ==
    /\ [](fort.count <= FortifyIterationCap)
    /\ [][fort.pc = "loop" =>
            \/ fort'.pc \in {"done", "raised"}
            \/ /\ fort'.pc = "loop"
               /\ fort'.count = fort.count + 1
               /\ fort.sp > fort.sp_left
               /\ fort.count < FortifyIterationCap]_vars

\* The cap at work: fifteen iterations in which the heuristic spent nothing.
C13_Witness ==
    /\ fort.pc = "done"
    /\ fort.count = FortifyIterationCap
    /\ fort.sp = fort.sp_start
    /\ fort.sp > fort.sp_left

\* C14: while the turn number is not above MIN_TURN_TO_FORTIFY_BACK_REGIONS
\* the loop runs the build heuristic of regions 0..3 only, never of the back
\* regions 4 and 5.
C14_NoBackRegionEarly ==
    (fort.pc # "idle" /\ fort.turn_number <= MIN_TURN_TO_FORTIFY_BACK_REGIONS) =>
        \A i \in 1..Len(fort.heur) : fort.heur[i] \in 0..3

\* An early turn on which the heuristic of some region has run.
C14_Witness ==
    /\ fort.pc = "done"
    /\ fort.turn_number <= MIN_TURN_TO_FORTIFY_BACK_REGIONS
    /\ Len(fort.heur) >= 2

\* The table a fresh path computation yields on the occupants a region has
\* recorded now.
FreshTable(r) ==
    BfsAll(Regions[r], reg_grid_unit[r], Entrances(Regions[r]),
           ResetTable(Regions[r])).table

\* C15: a path query (simulate_average_damage) that returns a value has read the
\* table computed from the occupants of the latest structure scan -- never a
\* table of an earlier scan or the empty table of the constructor; the only
\* other outcome is an exception.
C15_QueryReadsCurrentPaths ==
    (pq.op = "simulate_average_damage" /\ pq.err = "") =>
        /\ pq.computed = FreshTable(pq.region)
        /\ pq.computed # << >>

\* A query answered on the second scan, with paths found, after a table had
\* been computed on the first scan.
C15_Witness ==
    /\ pq.op = "simulate_average_damage" /\ pq.err = ""
    /\ turn = 2 /\ pq.total_paths > 0

\* A path entry that yields at least one coordinate.
NonEmptyPath(entry) == entry.items # << >>

\* C16: in the table calculate_paths has computed, for every pair of boundary
\* tiles e, x: the entry [e][x] is a non-empty path if and only if the entry
\* [x][e] is one.
C16_PathsSymmetric ==
    pq.op # "none" =>
        \A e \in DOMAIN pq.computed : \A x \in DOMAIN pq.computed[e] :
            NonEmptyPath(pq.computed[e][x]) <=> NonEmptyPath(pq.computed[x][e])

\* calculate_paths has recorded a path and its reverse.
C16_Witness ==
    /\ pq.op = "calculate_paths"
    /\ \E e \in DOMAIN pq.computed : \E x \in DOMAIN pq.computed[e] :
          /\ pq.computed[e][x].kind = "list" /\ NonEmptyPath(pq.computed[e][x])
          /\ pq.computed[x][e].kind = "reversed"

NoPathFound(region, table) ==
    \A i \in 1..Len(Entrances(region)) :
        LET e == Entrances(region)[i]
        IN  e \in DOMAIN table => \A x \in DOMAIN table[e] : ~Truthy(table[e][x])

\* C18: simulate_average_damage never fails by dividing by a zero path count,
\* and on a region whose table holds no entrance-to-exit path it returns 0.
C18_NoPathsGivesZero ==
    pq.op = "simulate_average_damage" =>
        /\ pq.err # "ZeroDivisionError"
        /\ NoPathFound(Regions[pq.region], pq.computed) =>
              (pq.err = "" /\ pq.value = <<0, 1>>)

\* C19: average_tile_damage on a region without interior tiles (tile_count = 0)
\* returns 0 and raises no division error.
C19_NoTilesGivesZero ==
    (geo.built /\ geo.atd # << >> /\ geo.region.tile_count = 0) =>
        /\ geo.atd[1].kind = "quotient"
        /\ geo.atd[1].num = 0

\* The tiles of a region's bounding box.
BoxOf(region) ==
    (region.xbounds[1]..region.xbounds[2]) \X (region.ybounds[1]..region.ybounds[2])

\* C20: for every simple polygon with axis-aligned and 45-degree edges the
\* constructor gives every tile of the bounding box exactly one of the classes
\* -1, 0, 1, and tile_count is the number of tiles of class 1.
C20_TileCountIsInterior ==
    (geo.built /\ SimplePolygon(geo.vertices)) =>
        /\ DOMAIN geo.region.grid_type = BoxOf(geo.region)
        /\ \A c \in BoxOf(geo.region) : geo.region.grid_type[c] \in {-1, 0, 1}
        /\ geo.region.tile_count =
              Cardinality({c \in BoxOf(geo.region) : geo.region.grid_type[c] = 1})

\* The lattice points of the closed segment from a to b.
LatticePoints(a, b) ==
    {p \in (Min2(a[1], b[1])..Max2(a[1], b[1])) \X (Min2(a[2], b[2])..Max2(a[2], b[2])) :
        OnSegment(a, b, p)}

\* C21: for an axis-aligned or 45-degree edge with endpoints A and B,
\* edge_coordinates((A, B)) and edge_coordinates((B, A)) yield the same set of
\* points, the lattice points of the segment from A to B with both endpoints.
C21_EdgeSymmetric ==
    (fn.op = "edge_coordinates" /\ AlignedEdge(fn.args[2], fn.args[3])) =>
        /\ SeqRange(fn.result[1]) = SeqRange(fn.result[2])
        /\ SeqRange(fn.result[1]) = LatticePoints(fn.args[2], fn.args[3])

\* A constructed region that is an axis-aligned rectangle: four vertices,
\* every edge horizontal or vertical.
IsRectangle(region) ==
    /\ Len(region.vertices) = 4
    /\ \A i \in 1..4 :
          LET p == region.vertices[i]
              q == region.vertices[(i % 4) + 1]
          IN  p[1] = q[1] \/ p[2] = q[2]

Width(region) == region.xbounds[2] - region.xbounds[1] + 1
Height(region) == region.ybounds[2] - region.ybounds[1] + 1

\* The tiles on the rim of the bounding box.
Perimeter(region) ==
    {c \in BoxOf(region) : \/ c[1] \in {region.xbounds[1], region.xbounds[2]}
                           \/ c[2] \in {region.ybounds[1], region.ybounds[2]}}

\* C22: for an axis-aligned rectangle of width and height greater than 2,
\* Region.__init__ (python-algov1-1) classifies every perimeter tile BOUNDARY
\* and sets tile_count to (width - 2) * (height - 2).
C22_RectangleCounts ==
    (/\ geo.built /\ geo.version = "v1-1"
     /\ IsRectangle(geo.region)
     /\ Width(geo.region) > 2 /\ Height(geo.region) > 2) =>
        /\ \A c \in Perimeter(geo.region) : geo.region.grid_type[c] = 0
        /\ geo.region.tile_count = (Width(geo.region) - 2) * (Height(geo.region) - 2)

\* A 4 x 3 rectangle has been constructed.
C22_Witness ==
    /\ geo.built /\ geo.version = "v1-1"
    /\ IsRectangle(geo.region)
    /\ Width(geo.region) = 4 /\ Height(geo.region) = 3
    /\ geo.region.tile_count = 2

\* ------------------------------------------------------------------------
\* Region.bfs, the queue, pop by pop
\* ------------------------------------------------------------------------
\* The region the searches run on: the back region of player 0, entered
\* through its edge (7, 6)-(20, 6).
BfsRegion == OurRegions[5]

\* Tiles of the map that may hold a structure during a search: three
\* INTERIOR tiles next to each other below the entrance (10, 6), the BOUNDARY
\* tile (8, 6), and (7, 5), an OUTSIDE tile of the bounding box; the last two
\* are the neighbours of the entrance (7, 6).
BfsSites == {<<10, 5>>, <<10, 4>>, <<11, 5>>, <<8, 6>>, <<7, 5>>}

\* Region.grid_unit after update_structures has scanned a map with walls on
\* the given tiles: an array over the bounding box, None before the scan.
BfsGridUnit(occupied) ==
    ScanGridUnit(BfsRegion,
                 [c \in DOMAIN BfsRegion.grid_type |-> << >>],
                 [c \in occupied |-> <<MkUnit(c, WALL, FALSE, UnitMaxHealth(WALL))>>])

\* A queue entry from which the search goes on as from a path ending in its
\* tile.
QueuedEntryExpands(entry) == FALSE

\* Popping a queue entry raises TypeError.  The first entry is [start], a
\* path; an entry appended later is [path + above], one list holding the
\* concatenation, so `s = path[-1]` is that whole list, s[0] is the start
\* coordinate, and `right = [s[0] + 1, s[1]]` (or already `s[1] + 1`, when
\* `above` was appended to the path before) adds a number to a list.
QueuedEntryRaises(entry) == ~entry.first

\* One run of the body of `while queue:`.  b is [queue, pops, enqueued,
\* visited, examined, err]: the queue, the number of pops, the tiles an entry
\* was queued for (the start first), the tiles marked in `visited`, the
\* neighbours that were recorded as an exit or queued, each with whether it
\* was marked visited when the loop came to it, and the exception raised.
\* A neighbour inside the bounding box that is not OUTSIDE is marked
\* visited; the mark is not read for anything else.  Of the neighbours of the popped path's
\* last tile, in the order above, below, right, left, those inside the
\* bounding box with a recorded occupant go on; python-algov1-1 queues an
\* entry for each that is not BOUNDARY; python-algov1 raises TypeError on the
\* first of them (reversed(None) for a BOUNDARY tile, list + tuple otherwise).
BfsPopOnce(version, region, grid_unit, b) ==
    LET entry == Head(b.queue)
        adj == Adjacents(entry.tile)
        occ == SelectSeq(adj, LAMBDA a : in_bounds(region, a)
                                           /\ GridUnitAt(grid_unit, a) # << >>)
        more == SelectSeq(occ, LAMBDA a : region.grid_type[a] # 0)
        upto == IF version = "v1" /\ occ # << >>
                THEN CHOOSE i \in 1..4 : adj[i] = occ[1] ELSE 4
        marked == {adj[i] : i \in {j \in 1..upto : /\ in_bounds(region, adj[j])
                                                    /\ region.grid_type[adj[j]] >= 0}}
    IN  IF QueuedEntryRaises(entry)
        THEN [b EXCEPT !.queue = Tail(b.queue), !.pops = b.pops + 1,
                       !.err = "TypeError"]
        ELSE IF version = "v1"
        THEN [b EXCEPT !.queue = Tail(b.queue), !.pops = b.pops + 1,
                       !.visited = b.visited \cup marked,
                       !.err = IF occ # << >> THEN "TypeError" ELSE ""]
        ELSE [queue |-> Tail(b.queue) \o
                          [i \in 1..Len(more) |-> [tile |-> more[i], first |-> FALSE]],
              pops |-> b.pops + 1,
              enqueued |-> b.enqueued \o more,
              visited |-> b.visited \cup marked,
              examined |-> b.examined \o
                  [i \in 1..Len(occ) |->
                      [tile |-> occ[i], seen |-> occ[i] \in b.visited,
                       as |-> IF region.grid_type[occ[i]] = 0 THEN "exit"
                              ELSE "queued"]],
              err |-> ""]

\* Region.bfs is called on an entrance, by either version, after a scan of a
\* map with structures on some of the tiles: queue = [[start]] and
\* visited[start] = True.
BfsBegin ==
    /\ fn = NoFn
    /\ \E version \in RegionVersions, occupied \in SUBSET BfsSites,
          i \in 1..Len(Entrances(BfsRegion)) :
          LET start == Entrances(BfsRegion)[i]
          IN  fn' = [op |-> "bfs", args |-> <<version, start, occupied>>,
                     result |-> [queue |-> <<[tile |-> start, first |-> TRUE]>>,
                                 pops |-> 0, enqueued |-> <<start>>,
                                 visited |-> {start}, examined |-> << >>,
                                 err |-> ""]]
    /\ UNCHANGED <<layout, turn, game_map, reg_units, reg_grid_unit, reg_view,
                   reg_states, def_units, damage_regions,
                   recalculate_damage_regions, wr, fort, recalculate_paths,
                   path_dict, pq, geo>>

\* The loop `while queue:` runs once more; an exception ends the call.
BfsPop ==
    /\ fn.op = "bfs"
    /\ fn.result.queue # << >>
    /\ fn.result.err = ""
    /\ fn' = [fn EXCEPT !.result = BfsPopOnce(fn.args[1], BfsRegion,
                                              BfsGridUnit(fn.args[3]), fn.result)]
    /\ UNCHANGED <<layout, turn, game_map, reg_units, reg_grid_unit, reg_view,
                   reg_states, def_units, damage_regions,
                   recalculate_damage_regions, wr, fort, recalculate_paths,
                   path_dict, pq, geo>>

NextBfs == BfsBegin \/ BfsPop
SpecBfs == InitGeometry /\ [][NextBfs]_vars

\* ------------------------------------------------------------------------
\* Defense.update_defense, the inventory self.units, in both versions
\* ------------------------------------------------------------------------
\* The versions of Defense.update_defense in the repository.
DefenseVersions == {"v1", "v2-0"}

\* Tiles on which the snapshots of these runs hold structures, two on each
\* half; (7, 10) lies on the edge shared by regions 0 and 2.
InventorySites == {<<7, 10>>, <<18, 10>>, <<7, 17>>, <<18, 17>>}

\* The snapshots: on every site nothing, a wall or a turret.
InventorySnapshots ==
    {[c \in InventorySites |-> IF k[c] = "" THEN << >>
                               ELSE <<MkUnit(c, k[c], FALSE, UnitMaxHealth(k[c]))>>] :
        k \in [InventorySites -> {"", WALL, TURRET}]}

\* The closing loop of update_defense: self.units is reset, then the tiles
\* are scanned, x outer and y inner.  python-algov2-0 scans the rows of the
\* player's half and appends each structure to the list of its type;
\* python-algov1 scans rows 0..13 whoever the player is and assigns the
\* structure itself to self.units[type], so only the last one scanned stays.
update_defense_units(version, player_id, m) ==
    LET rows == IF version = "v1" THEN 0..(HALF_ARENA - 1)
                ELSE (HALF_ARENA * player_id)..(HALF_ARENA * (1 + player_id) - 1)
        tiles == TilesInOrder({c \in DOMAIN m : /\ c[1] \in 0..(ARENA_SIZE - 1)
                                                /\ c[2] \in rows
                                                /\ InArenaBounds(c)
                                                /\ m[c] # << >>})
        scanned(k) == SelectSeq([i \in 1..Len(tiles) |-> m[tiles[i]][1]],
                                LAMBDA u : u.type = k)
    IN  [k \in UnitKinds |->
            IF version = "v1" /\ scanned(k) # << >>
            THEN <<scanned(k)[Len(scanned(k))]>>
            ELSE scanned(k)]

\* Defense.update_defense on a snapshot, for either player.
UpdateDefenseUnits ==
    /\ \E version \in DefenseVersions, player_id \in {0, 1},
          m \in InventorySnapshots :
          fn' = [op |-> "update_defense", args |-> <<version, player_id, m>>,
                 result |-> update_defense_units(version, player_id, m)]
    /\ UNCHANGED <<layout, turn, game_map, reg_units, reg_grid_unit, reg_view,
                   reg_states, def_units, damage_regions,
                   recalculate_damage_regions, wr, fort, recalculate_paths,
                   path_dict, pq, geo>>

NextInventory == UpdateDefenseUnits
SpecInventory == InitGeometry /\ [][NextInventory]_vars

\* ------------------------------------------------------------------------
\* Region.fortify_region_defenses on one region after its first scan
\* ------------------------------------------------------------------------
\* The boards the heuristic is run on, as the structures on seven INTERIOR
\* tiles of region 3, the triangle (13,13), (20,13), (20,6).  (18, 10) may
\* hold a turret that is not upgraded, at full health or at a quarter of it,
\* or an upgraded one; (19, 10) a turret at full health, upgraded or not;
\* (17, 11), (18, 11) and (19, 11) a turret at full health that is not
\* upgraded; (19, 9) a wall; every tile may be free.
HeuristicBoards ==
    LET sites == {<<17, 11>>, <<18, 10>>, <<18, 11>>, <<19, 10>>, <<19, 11>>,
                  <<19, 9>>}
        kinds(c) == {""} \cup
                    (IF c = <<19, 9>> THEN {"wall"}
                     ELSE IF c = <<18, 10>> THEN {"plain", "upgraded", "weak"}
                     ELSE IF c = <<19, 10>> THEN {"plain", "upgraded"}
                     ELSE {"plain"})
        unit(c, kind) ==
            IF kind = "" THEN << >>
            ELSE IF kind = "wall"
            THEN <<MkUnit(c, WALL, FALSE, UnitMaxHealth(WALL))>>
            ELSE <<MkUnit(c, TURRET, kind = "upgraded",
                          IF kind = "weak" THEN 1 ELSE UnitMaxHealth(TURRET))>>
    IN  {[c \in sites |-> unit(c, k[c])] :
            k \in {j \in [sites -> {"", "wall", "plain", "upgraded", "weak"}] :
                      \A c \in sites : j[c] \in kinds(c)}}

\* update_structures of region 3 on the board of the turn, then its
\* fortify_region_defenses, once in a run: with a balance
\* (get_resource(0, 0)) of 3, 4 or 8 structure points, on a turn below or
\* above MIN_TURN_UPGRADE.  fn keeps the region, its inventory, the balance
\* and the turn number of the call, and the commands it submitted with the
\* balance left.
FortifyRegionDefenses ==
    /\ fn = NoFn
    /\ \E n \in HeuristicBoards, sp \in {3, 4, 8}, turn_number \in {3, 11} :
          LET region == Regions[3]
              m == n @@ [c \in {t \in Board : InArenaBounds(t)} |-> << >>]
              units == ScanUnits(region, EmptyUnits, m)
              grid_unit == ScanGridUnit(region,
                                        [c \in region.coordinates |-> << >>], m)
          IN  \E g \in fortify_region_defenses([sp |-> sp, map |-> m, cmds |-> << >>],
                                               region, units, grid_unit, turn_number) :
                 fn' = [op |-> "fortify_region_defenses",
                        args |-> <<3, units, sp, turn_number>>,
                        result |-> [cmds |-> g.cmds, sp |-> g.sp]]
    /\ UNCHANGED <<layout, turn, game_map, reg_units, reg_grid_unit, reg_view,
                   reg_states, def_units, damage_regions,
                   recalculate_damage_regions, wr, fort, recalculate_paths,
                   path_dict, pq, geo>>

SpecHeuristic == InitGeometry /\ [][FortifyRegionDefenses]_vars

\* The half of the arena a player defends.
OwnHalf(player_id, c) ==
    IF player_id = 0 THEN c[2] < HALF_ARENA ELSE c[2] >= HALF_ARENA

\* C23: for each player, every in-arena coordinate c of the player's half is
\* mapped by get_region to an index in 0..5 of a region that contains c, never
\* to -1; the offset coordinate looked up has its y in 0..13.
C23_RegionsTileHalf ==
    (fn.op = "get_region" /\ OwnHalf(fn.args[1], fn.args[2])) =>
        /\ fn.result.err = ""
        /\ fn.result.value \in 0..5
        /\ fn.args[2] \in DefenseRegions(fn.args[1])[fn.result.value].coordinates
        /\ offset_coord(fn.args[1], fn.args[2])[2] \in 0..(HALF_ARENA - 1)

\* An enemy-side coordinate has been looked up in the enemy's Defense.
C23_Witness ==
    /\ fn.op = "get_region" /\ fn.args = <<1, <<13, 27>>>>
    /\ fn.result = [err |-> "", value |-> 5]

\* Twice the signed area of a polygon (shoelace sum).
DoubledArea(v) ==
    LET n == Len(v)
        term(i) == v[i][1] * v[(i % n) + 1][2] - v[(i % n) + 1][1] * v[i][2]
    IN  SumSeq([i \in 1..n |-> term(i)])

\* A vertex list with an edge that is neither axis-aligned nor at 45 degrees,
\* or of zero area.
InvalidGeometry(v) ==
    \/ \E i \in 1..Len(v) :
          LET p == v[i]
              q == v[(i % Len(v)) + 1]
          IN  p # q /\ ~AlignedEdge(p, q)
    \/ DoubledArea(v) = 0

\* The lattice points of the edges of a polygon.
EdgeLattice(v) ==
    UNION {LatticePoints(v[i], v[(i % Len(v)) + 1]) : i \in 1..Len(v)}

\* C24: constructing a Region from a vertex list with an unsupported edge or
\* of zero area fails; it never completes, in particular not with a boundary
\* set other than the lattice points of the polygon's edges.
C24_InvalidGeometryFails ==
    (geo # NoGeo /\ InvalidGeometry(geo.vertices)) => ~geo.built

\* C29: constructing the back region's quadrilateral as region_print_test
\* does (map = None, damage_regions = None, unit_enum_map = None, the
\* python-algov1 constructor) completes without error, every tile of the
\* bounding box classified -1, 0 or 1.
C29_RegionPrintTestCompletes ==
    (/\ geo # NoGeo /\ geo.version = "v1"
     /\ geo.vertices = RegionPrintTest.vertices
     /\ geo.unit_enum_map = "None") =>
        /\ geo.built
        /\ \A c \in BoxOf(geo.region) : geo.region.grid_type[c] \in {-1, 0, 1}

\* a is an initial part of b.
IsPrefix(a, b) == Len(a) <= Len(b) /\ a = SubSeq(b, 1, Len(a))

\* The entries of the queue `old` that were not taken are in the queue `new`.
KeptUntilTaken(old, got, new) ==
    \A k \in 1..Len(old) : k > Len(got) => old[k] \in SeqRange(new)

\* C25: a structure queued for rebuild stays queued until a re-spawn has been
\* attempted: after rebuild_routine every entry the loops did not take, for
\* lack of structure points, is still in its queue.
C25_QueuedUntilAttempted ==
    \A i \in 1..Len(fort.rebuild) :
        LET rb == fort.rebuild[i]
        IN  /\ KeptUntilTaken(rb.turrets_to_rebuild, rb.got.turrets,
                              fort.turrets_to_rebuild)
            /\ KeptUntilTaken(rb.walls_to_rebuild, rb.got.walls,
                              fort.walls_to_rebuild)

\* C26: the entries of each rebuild queue are processed oldest first: what a
\* loop of rebuild_routine took is an initial part of the queue as it was.
C26_OldestFirst ==
    \A i \in 1..Len(fort.rebuild) :
        LET rb == fort.rebuild[i]
        IN  /\ IsPrefix(rb.got.turrets, rb.turrets_to_rebuild)
            /\ IsPrefix(rb.got.walls, rb.walls_to_rebuild)

\* A rebuild routine that took two different walls from its queue and
\* re-spawned both.
C26_Witness ==
    /\ fort.rebuild # << >>
    /\ LET rb == fort.rebuild[1]
       IN  /\ Len(rb.got.walls) = 2
           /\ rb.got.walls[1] # rb.got.walls[2]
           /\ \A k \in 1..2 : /\ rb.before[rb.got.walls[k].COORD] = << >>
                              /\ rb.after[rb.got.walls[k].COORD] # << >>

\* The structure of the entry was re-spawned by the rebuild routine rb as
\* the given type, with the upgrade state of the entry.
RespawnedAsBefore(rb, elem, type) ==
    (rb.before[elem.COORD] = << >> /\ rb.after[elem.COORD] # << >>) =>
        /\ rb.after[elem.COORD][1].type = type
        /\ rb.after[elem.COORD][1].upgraded = elem.UPGRADE

\* C27: a rebuilt structure stands on the coordinate of the removed one with
\* its upgrade state: upgraded after the rebuild exactly when the removed
\* structure was upgraded, for turrets and for walls.
C27_UpgradeStateKept ==
    \A i \in 1..Len(fort.rebuild) :
        LET rb == fort.rebuild[i]
        IN  /\ \A k \in 1..Len(rb.got.turrets) :
                  RespawnedAsBefore(rb, rb.got.turrets[k], TURRET)
            /\ \A k \in 1..Len(rb.got.walls) :
                  RespawnedAsBefore(rb, rb.got.walls[k], WALL)

\* The structures of one type a snapshot holds on a player's half.
OnHalf(m, player_id, k) ==
    {m[c][1] : c \in {d \in DOMAIN m : /\ OwnHalf(player_id, d)
                                       /\ m[d] # << >>
                                       /\ m[d][1].type = k}}

C30_BfsHalts ==
    fn.op = "bfs" =>
        /\ \A i, j \in 1..Len(fn.result.enqueued) :
              fn.result.enqueued[i] = fn.result.enqueued[j] => i = j
        /\ fn.result.pops <= Cardinality(BfsRegion.coordinates)

\* A search of python-algov1-1 from (10, 6) below which (10, 5) and (10, 4)
\* hold structures has queued (10, 5) and has ended.
C30_Witness ==
    /\ fn.op = "bfs"
    /\ fn.args[1] = "v1-1"
    /\ fn.args[2] = <<10, 6>>
    /\ {<<10, 5>>, <<10, 4>>} \subseteq fn.args[3]
    /\ fn.result.enqueued = << <<10, 6>>, <<10, 5>> >>
    /\ fn.result.pops = 2
    /\ (fn.result.queue = << >> \/ fn.result.err # "")

\* C31: during a search a neighbour is queued or recorded as an exit only if
\* it lies inside the bounding box, is BOUNDARY or INTERIOR, and was not
\* marked visited before in this run.
C31_OnlyVisitableNeighbours ==
    (fn.op = "bfs" /\ fn.args[1] = "v1-1") =>
        \A i \in 1..Len(fn.result.examined) :
            LET e == fn.result.examined[i]
            IN  /\ in_bounds(BfsRegion, e.tile)
                /\ BfsRegion.grid_type[e.tile] \in {0, 1}
                /\ ~e.seen

\* A search from the entrance (7, 6) after a scan of a map with structures
\* on the OUTSIDE tile (7, 5) below it and on the BOUNDARY tile (8, 6) beside
\* it: (8, 6) was recorded as an exit, (7, 5) neither recorded nor queued.
C31_Witness ==
    /\ fn.op = "bfs" /\ fn.args[1] = "v1-1"
    /\ fn.args[2] = <<7, 6>>
    /\ {<<7, 5>>, <<8, 6>>} \subseteq fn.args[3]
    /\ fn.result.pops = 1
    /\ fn.result.examined = <<[tile |-> <<8, 6>>, seen |-> FALSE, as |-> "exit"]>>

\* Two tiles next to each other, horizontally or vertically.
FourAdjacent(a, b) ==
    \/ a[1] = b[1] /\ (a[2] = b[2] + 1 \/ b[2] = a[2] + 1)
    \/ a[2] = b[2] /\ (a[1] = b[1] + 1 \/ b[1] = a[1] + 1)

\* A sequence of coordinates leading from `entrance` to `exit` in steps
\* between 4-adjacent tiles, through INTERIOR tiles of the region only.
WalksFromTo(region, items, entrance, exit) ==
    /\ items[1] = entrance
    /\ items[Len(items)] = exit
    /\ \A i \in 1..(Len(items) - 1) : FourAdjacent(items[i], items[i + 1])
    /\ \A i \in 2..(Len(items) - 1) :
          items[i] \in DOMAIN region.grid_type /\ region.grid_type[items[i]] = 1

\* C32: every non-empty path the search has recorded under [entrance][exit]
\* starts at the entrance, ends at the exit, moves between 4-adjacent tiles and
\* passes through INTERIOR tiles only; the entry under [exit][entrance] is the
\* same sequence reversed.
C32_RecordedPathsWalk ==
    pq.op = "calculate_paths" =>
        \A e \in DOMAIN pq.computed : \A x \in DOMAIN pq.computed[e] :
            (pq.computed[e][x].kind = "list" /\ NonEmptyPath(pq.computed[e][x])) =>
                /\ WalksFromTo(Regions[pq.region], pq.computed[e][x].items, e, x)
                /\ pq.computed[x][e].items = Reverse(pq.computed[e][x].items)

\* The INTERIOR tiles of a region next to a tile of S.
InteriorNextTo(region, S) ==
    {c \in DOMAIN region.grid_type :
        region.grid_type[c] = 1 /\ \E d \in S : FourAdjacent(c, d)}

\* The INTERIOR tiles reachable from the tiles of S through INTERIOR tiles.
RECURSIVE InteriorReach(_, _)
InteriorReach(region, S) ==
    LET more == S \cup InteriorNextTo(region, S)
    IN  IF more = S THEN S ELSE InteriorReach(region, more)

\* The boundary tiles 4-connected to an entrance through INTERIOR tiles.
ExitsOf(region, entrance) ==
    LET inner == InteriorReach(region, InteriorNextTo(region, {entrance}))
    IN  {x \in region.all_boundaries \ {entrance} :
            \E c \in inner : FourAdjacent(c, x)}

\* Neither the map nor the occupants a region has recorded hold a structure.
NoStructures(r) ==
    /\ \A c \in DOMAIN game_map : game_map[c] = << >>
    /\ \A c \in DOMAIN reg_grid_unit[r] : reg_grid_unit[r][c] = << >>

\* C33: the search goes through INTERIOR tiles whether or not a structure
\* stands on them: in a region without structures, calculate_paths gives every
\* boundary tile that is 4-connected to an entrance through INTERIOR tiles a
\* non-empty path from that entrance.
C33_EmptyRegionHasPaths ==
    (pq.op = "calculate_paths" /\ turn >= 1 /\ NoStructures(pq.region)) =>
        \A i \in 1..Len(Entrances(Regions[pq.region])) :
            LET e == Entrances(Regions[pq.region])[i]
            IN  \A x \in ExitsOf(Regions[pq.region], e) :
                    NonEmptyPath(pq.computed[e][x])

\* C34: path recomputation is gated by the dirty flag: once calculate_paths
\* has run on a region, directly or within simulate_average_damage, the
\* region's recalculate_paths is clear, so that a further call before the next
\* structure scan does not search again.
C34_FlagClearAfterPaths ==
    (pq.op \in {"calculate_paths", "simulate_average_damage"} /\ pq.err = "") =>
        ~recalculate_paths[pq.region]

\* Every structure on the board is in the inventory of the Defense and in
\* the inventory of every region it stands in.
InventoriesCoverBoard ==
    \A c \in DOMAIN game_map :
        game_map[c] # << >> =>
            LET u == game_map[c][1]
            IN  /\ u \in SeqRange(def_units[u.type])
                /\ \A r \in RegionIds :
                      c \in Regions[r].coordinates =>
                          u \in SeqRange(reg_units[r][u.type])

\* C35: in the fortification loop every invocation of a region's build
\* heuristic is followed by a full update_defense before the next selection
\* of the weakest region: whenever the loop is about to select again, the
\* inventories hold every structure of the board, those just built included.
C35_RescanAfterHeuristic ==
    (fort.pc = "loop" /\ fort.count >= 1) => InventoriesCoverBoard

\* The loop has run a heuristic that built a structure, and is back at its
\* condition.
C35_Witness ==
    /\ fort.pc = "loop" /\ fort.count >= 1
    /\ \E i \in 1..Len(fort.cmds) :
          /\ fort.cmds[i][1] = "spawn"
          /\ game_map[fort.cmds[i][3]] # << >>
          /\ game_map[fort.cmds[i][3]][1] \in SeqRange(def_units[fort.cmds[i][2]])
    /\ fort.turn_number <= MIN_TURN_REBUILD

\* C36: calculate_damage_regions is idempotent between scans: once it has run
\* (the flag is clear), a further call before the next update_defense leaves
\* the damage field exactly as it is.
C36_DamageFieldIdempotent ==
    [][(~recalculate_damage_regions /\ turn' = turn)
          => damage_regions' = damage_regions]_vars

\* calculate_damage_regions has run on an inventory with a turret: the field
\* holds its damage, the flag is clear and a second call is possible.
C36_Witness ==
    /\ turn >= 1
    /\ ~wr.called
    /\ ~recalculate_damage_regions
    /\ def_units[TURRET] # << >>
    /\ \E c \in Board : damage_regions[c] > 0

\* The INTERIOR tiles of a region.
InteriorTiles(region) ==
    {c \in DOMAIN region.grid_type : region.grid_type[c] = 1}

\* C37: the tile statistics of a region range over INTERIOR tiles only: after
\* a scan the numerator of average_tile_damage is the damage field summed over
\* the INTERIOR tiles, and undefended_tiles lists exactly the INTERIOR tiles
\* with damage 0; BOUNDARY tiles contribute to neither.
C37_StatisticsOverInterior ==
    [][turn' = turn + 1 =>
          \A r \in RegionIds :
              LET inner == InteriorTiles(Regions[r])
              IN  /\ reg_states'[r].AVG_TILE_DMG_NUM =
                         SumOver([c \in inner |->
                                     RegionDamage(reg_view[r], damage_regions, c)],
                                 inner)
                  /\ reg_states'[r].UNDEFENDED_TILES =
                         {c \in inner :
                             RegionDamage(reg_view[r], damage_regions, c) = 0}]_vars

\* The lattice points of the edges a region declares as incoming, outgoing
\* or breach.
DeclaredEdgePoints(region) ==
    LET edges == region.incoming_edges \o region.outgoing_edges
                     \o region.breach_edges
    IN  UNION {LatticePoints(edges[i][1], edges[i][2]) : i \in 1..Len(edges)}

\* C38: for each of the six fixed regions of either player, every lattice
\* point of every incoming, outgoing and breach edge is classified BOUNDARY
\* and is a key of the path table, and no INTERIOR tile lies on such an edge.
C38_DeclaredEdgesAreBoundary ==
    fn.op = "get_region" =>
        \A i \in DOMAIN DefenseRegions(fn.args[1]) :
            LET region == DefenseRegions(fn.args[1])[i]
            IN  /\ \A p \in DeclaredEdgePoints(region) :
                      /\ p \in DOMAIN region.grid_type
                      /\ region.grid_type[p] = 0
                      /\ p \in DOMAIN ResetTable(region)
                /\ InteriorTiles(region) \cap DeclaredEdgePoints(region) = {}

\* A lookup on the Defense of player 1, whose region 4 declares the closing
\* edge (20, 21)-(7, 21) of its vertex list as outgoing: its point (13, 21) is
\* BOUNDARY.
C38_Witness ==
    /\ fn.op = "get_region"
    /\ fn.args[1] = 1
    /\ <<13, 21>> \in DeclaredEdgePoints(EnemyRegions[4])
    /\ EnemyRegions[4].grid_type[<<13, 21>>] = 0

RECURSIVE WallSpend(_)
WallSpend(cmds) ==
    IF cmds = << >> THEN 0
    ELSE (IF Head(cmds)[2] = WALL THEN 1 ELSE 0) + WallSpend(Tail(cmds))

\* The call of fortify_region_defenses kept in fn took an upgrade branch:
\* the region holds at least two turrets, one of them not upgraded, and
\* either MAX_TURRETS of them, or none below half of its health and at least
\* 4 structure points once the walls are paid.
TakesUpgradeBranch ==
    /\ fn.op = "fortify_region_defenses"
    /\ LET turrets == fn.args[2][TURRET]
       IN  /\ Len(turrets) >= 2
           /\ \E i \in 1..Len(turrets) : ~turrets[i].upgraded
           /\ \/ Len(turrets) >= MAX_TURRETS
              \/ /\ \A i \in 1..Len(turrets) :
                       2 * turrets[i].health >= turrets[i].max_health
                 /\ fn.args[3] - WallSpend(fn.result.cmds) >= 4

\* C40: when fortify_region_defenses takes its upgrade branch, it issues an
\* upgrade at the location of a turret of the region that is not upgraded:
\* among the commands of the call there is an upgrade of a turret on the
\* tile of a turret of the inventory that was not upgraded.
C40_UpgradeBranchUpgrades ==
    TakesUpgradeBranch =>
        \E i \in 1..Len(fn.result.cmds) :
           /\ fn.result.cmds[i][1] = "upgrade"
           /\ fn.result.cmds[i][2] = TURRET
           /\ \E k \in 1..Len(fn.args[2][TURRET]) :
                 /\ ~fn.args[2][TURRET][k].upgraded
                 /\ fn.result.cmds[i][3] = <<fn.args[2][TURRET][k].x,
                                             fn.args[2][TURRET][k].y>>

====
